---- MODULE Spec2Model ----
(***************************************************************************)
(* QVoCh hub: rooms, sub-channels, sessions and pending invites.           *)
(* State machine of internal/sfu/hub.go, internal/sfu/room.go and the      *)
(* connection handler (internal/handlers).  Every handler is an operator   *)
(* from the hub state h to its result (the new hub state and the reply),   *)
(* and an action that runs it on the current state.                        *)
(***************************************************************************)
EXTENDS Integers, Sequences, FiniteSets, TLC

\* ---------------------------------------------------------------- bounds
NumConns == 3
MaxRoomIds == 3
MaxTokens == 3
MaxInvites == 1
MaxTicks == 1
NumSuffixes == 3
MaxChats == 2
MaxElapses == 2
MaxRingChats == 12

\* ------------------------------------------------------ program constants
\* all durations in seconds
SessionTTL == 86400
InviteTTL == 604800
CreateWindow == 600
MaxCreatesPerIP == 3
InviteTimeout == 30
CountdownDelay == 300
SubGCAge == 300
RoomGCAge == 1800
ZeroTime == -1
MinChatHistorySize == 10
MaxRate == 30
RateWindow == 1000
MaxViolations == 50

ErrPasswordRequired == "PASSWORD_REQUIRED"
ErrPasswordWrong == "PASSWORD_WRONG"
ErrChannelFull == "CHANNEL_FULL"
ErrServerFull == "SERVER_FULL"
ErrNameTaken == "NAME_TAKEN"
ErrChannelNotFound == "CHANNEL_NOT_FOUND"
ErrAlreadyInSub == "ALREADY_IN_SUB"
ErrInviteExpired == "INVITE_EXPIRED"
ErrInvalidMessage == "INVALID_MESSAGE"
ErrInternalError == "INTERNAL_ERROR"

\* ------------------------------------------------------------ input sets
Usernames == {"a", "b"}
ChannelNames == {"Lobby"}
Suffixes == 0 .. (NumSuffixes - 1)
FullNames == ChannelNames \X Suffixes
NoName == <<"", -1>>
GoodPassword == "secret1"
OtherPassword == "secret2"
ShortPassword == "pw"
SubNames == {"", "war-room"}

VARIABLES
    now,              \* wall clock (seconds)
    ticks,            \* number of clock advances so far (bounded)
    maxUsersPerRoom,  \* Hub.maxUsersPerRoom
    maxTotalRooms,    \* Hub.maxTotalRooms
    chatHistorySize,  \* Hub.chatHistorySize
    pending,          \* per transport: the handler run that is between two locks
    conn,             \* per transport: handler state, remote IP, what it lost
    peers,            \* the Peer objects, one per accepted transport
    rooms,            \* the Room objects (main and sub), by allocation order
    Rooms,            \* Hub.Rooms: ids of the indexed rooms
    RoomsByName,      \* Hub.RoomsByName: full name -> room
    InviteMap,        \* Hub.InviteMap: invite token -> room
    SessionMap,       \* Hub.SessionMap: session token -> peer object
    PendingInvites,   \* Hub.PendingInvites: ids of the pending invites
    invites,          \* every invite ever created, with its timer
    roomCreatesPerIP, \* Hub.roomCreatesPerIP: ip -> times of recent creates
    nextToken,        \* number of session tokens issued
    nextMsg,          \* number of chat message ids issued
    countdowns,       \* armed sub-channel countdown timers <<sub, deadline>>
    created,          \* history: <<ip, time>> of every successful create
    last,             \* the last observed handler run: input and reply
    media,            \* the signaling fields of the Peer objects
    pcs,              \* the media connections (webrtc.PeerConnection), by creation
    procs,            \* the goroutines of the signaling engine that are under way
    offers,           \* the offers sent to clients, in send order
    limiter           \* one transport's rateLimiter and violation count

hubVars == <<peers, rooms, Rooms, RoomsByName, InviteMap, SessionMap,
             PendingInvites, invites, roomCreatesPerIP, nextToken, nextMsg,
             countdowns>>

envVars == <<now, ticks, maxUsersPerRoom, maxTotalRooms, chatHistorySize>>

sideVars == <<media, pcs, procs, offers, limiter>>

vars == <<envVars, pending, conn, hubVars, created, last, sideVars>>

\* ---------------------------------------------------------------- helpers
EmptyMap == [x \in {} |-> 0]

MapPut(f, k, v) == [x \in (DOMAIN f) \cup {k} |-> IF x = k THEN v ELSE f[x]]

MapDel(f, k) == [x \in (DOMAIN f) \ {k} |-> f[x]]

Range(f) == {f[x] : x \in DOMAIN f}

ConnIds == 1 .. Len(peers)

\* the hub state the handlers run on
H ==
    [peers |-> peers, rooms |-> rooms, Rooms |-> Rooms, RoomsByName |-> RoomsByName,
     InviteMap |-> InviteMap, SessionMap |-> SessionMap,
     PendingInvites |-> PendingInvites, invites |-> invites,
     roomCreatesPerIP |-> roomCreatesPerIP, nextToken |-> nextToken,
     nextMsg |-> nextMsg, countdowns |-> countdowns]

\* the hub state a handler leaves becomes the current one
Install(h) ==
    /\ peers' = h.peers
    /\ rooms' = h.rooms
    /\ Rooms' = h.Rooms
    /\ RoomsByName' = h.RoomsByName
    /\ InviteMap' = h.InviteMap
    /\ SessionMap' = h.SessionMap
    /\ PendingInvites' = h.PendingInvites
    /\ invites' = h.invites
    /\ roomCreatesPerIP' = h.roomCreatesPerIP
    /\ nextToken' = h.nextToken
    /\ nextMsg' = h.nextMsg
    /\ countdowns' = h.countdowns

\* the model allocates ids from bounded pools
WithinBounds(h) ==
    /\ Len(h.rooms) <= MaxRoomIds
    /\ h.nextToken <= MaxTokens
    /\ Len(h.invites) <= MaxInvites

\* bcrypt.GenerateFromPassword / bcrypt.CompareHashAndPassword
HashPassword(pw) == <<"bcrypt", pw>>

CompareHashAndPassword(hash, pw) == hash = HashPassword(pw)

\* validateUsername, validateChannelName, validatePassword on the model's inputs
validateUsername(name) == name # "" /\ Len(name) <= 24

validateChannelName(name) == name \in ChannelNames \cup (SubNames \ {""})

validatePassword(pw) == Len(pw) >= 6 /\ Len(pw) <= 64

\* NewRoom
NewRoom(id, name, fullName, inviteToken, passwordHash) ==
    [ID |-> id, Name |-> name, FullName |-> fullName, InviteToken |-> inviteToken,
     ParentID |-> 0, PasswordHash |-> passwordHash, CreatedAt |-> now,
     Peers |-> EmptyMap, SubChannels |-> {}, ChatHistory |-> << >>,
     Expiry |-> ZeroTime, CountdownExpiresAt |-> 0]

\* Room.AddPeer on a room record
AddPeer(r, pid, obj) == [r EXCEPT !.Peers = MapPut(@, pid, obj), !.Expiry = ZeroTime]

\* Room.RemovePeer on a room record
RemovePeerFromRoom(r, pid) ==
    LET ps == MapDel(r.Peers, pid)
    IN [r EXCEPT !.Peers = ps,
                 !.Expiry = IF Cardinality(DOMAIN ps) = 0 THEN now ELSE @]

\* the handler's fresh Peer (HandleWebSocket)
NewPeer(c) ==
    [ID |-> c, Name |-> "", RoomID |-> 0, MainRoomID |-> 0, SessionToken |-> 0,
     SessionCreatedAt |-> ZeroTime, Conn |-> c]

NoLast == [op |-> "none"]

\* no handler run of the transport is under way
NoPending == [op |-> "none"]

\* time.Since(t) > d, for a timestamp that may be the zero time
OlderThan(t, d) == t = ZeroTime \/ now - t > d

\* newRateLimiter at time 0, with the handler's violation count, the transport's
\* state, the clock in milliseconds and the envelopes dispatched since the last
\* refill, at this instant and in the RateWindow before it
newRateLimiter(maxRate) ==
    [tokens |-> maxRate, lastReset |-> 0, maxRate |-> maxRate, violations |-> 0,
     state |-> "open", clock |-> 0, sinceReset |-> 0, sentNow |-> 0,
     sentBefore |-> 0]

\* ------------------------------------------------------------------- Init
InitWith(users, total) ==
    /\ now = 0
    /\ ticks = 0
    /\ maxUsersPerRoom = users
    /\ maxTotalRooms = total
    /\ chatHistorySize = MinChatHistorySize
    /\ pending = [c \in 1 .. NumConns |-> NoPending]
    /\ conn = << >>
    /\ peers = << >>
    /\ rooms = << >>
    /\ Rooms = {}
    /\ RoomsByName = EmptyMap
    /\ InviteMap = EmptyMap
    /\ SessionMap = EmptyMap
    /\ PendingInvites = {}
    /\ invites = << >>
    /\ roomCreatesPerIP = EmptyMap
    /\ nextToken = 0
    /\ nextMsg = 0
    /\ countdowns = {}
    /\ created = << >>
    /\ last = NoLast
    /\ media = << >>
    /\ pcs = << >>
    /\ procs = << >>
    /\ offers = << >>
    /\ limiter = newRateLimiter(MaxRate)

\* ------------------------------------------------------------ CreateRoom
\* times of this IP's creates that are still inside the window (hub.go:111-118)
RecentCreates(h, ip) ==
    IF ip \in DOMAIN h.roomCreatesPerIP
    THEN SelectSeq(h.roomCreatesPerIP[ip], LAMBDA t : t > now - CreateWindow)
    ELSE << >>

\* Hub.CreateRoom for creator object c; s is the suffix generateRoomSuffix drew
\* last (a suffix of an indexed name: every retry collided)
CreateRoom(h, c, ip, p, s) ==
    LET filtered == RecentCreates(h, ip)
        h1 == [h EXCEPT !.roomCreatesPerIP = MapPut(@, ip, filtered)]
        h2 == [h EXCEPT !.roomCreatesPerIP = MapPut(@, ip, Append(filtered, now))]
        roomID == Len(h.rooms) + 1
        fullName == <<p.ChannelName, s>>
        sessionToken == h.nextToken + 1
        room == AddPeer(NewRoom(roomID, p.ChannelName, fullName, roomID,
                                HashPassword(p.Password)), h.peers[c].ID, c)
    IN IF Cardinality(h.Rooms) >= maxTotalRooms
       THEN [h |-> h, err |-> ErrServerFull, room |-> 0]
       ELSE IF Len(filtered) >= MaxCreatesPerIP
       THEN [h |-> h1, err |-> ErrServerFull, room |-> 0]
       ELSE IF fullName \in DOMAIN h.RoomsByName
       THEN [h |-> h2, err |-> "could not generate unique room name", room |-> 0]
       ELSE [h |-> [h2 EXCEPT
                      !.peers[c].RoomID = roomID,
                      !.peers[c].MainRoomID = roomID,
                      !.peers[c].SessionToken = sessionToken,
                      !.peers[c].SessionCreatedAt = now,
                      !.rooms = Append(@, room),
                      !.Rooms = @ \cup {roomID},
                      !.RoomsByName = MapPut(@, fullName, roomID),
                      !.InviteMap = MapPut(@, roomID, roomID),
                      !.SessionMap = MapPut(@, sessionToken, c),
                      !.nextToken = sessionToken],
             err |-> "", room |-> roomID]

\* handleCreate: validation, then Hub.CreateRoom; the reply is its code and message
handleCreate(h, c, ip, p, s) ==
    IF ~validateUsername(p.Username)
    THEN [h |-> h, code |-> ErrInvalidMessage, msg |-> "", room |-> 0]
    ELSE IF ~validateChannelName(p.ChannelName)
    THEN [h |-> h, code |-> ErrInvalidMessage, msg |-> "", room |-> 0]
    ELSE IF ~validatePassword(p.Password)
    THEN [h |-> h, code |-> ErrPasswordRequired, msg |-> "", room |-> 0]
    ELSE LET r == CreateRoom([h EXCEPT !.peers[c].Name = p.Username], c, ip, p, s)
         IN IF r.err # ""
            THEN [h |-> r.h, code |-> ErrInternalError, msg |-> r.err, room |-> 0]
            ELSE [h |-> r.h, code |-> "welcome", msg |-> "", room |-> r.room]

CreatePayload(u, n, pw) == [Username |-> u, ChannelName |-> n, Password |-> pw]

\* -------------------------------------------------------------- JoinRoom
\* TotalPeers counting the main room's own members only
TotalPeersMainOnly(h, r) == Cardinality(DOMAIN h.rooms[r].Peers)

\* hub.go:251-256: members of the room and of its registered subs
TotalPeers(h, r) ==
    Cardinality(DOMAIN h.rooms[r].Peers)
      + Cardinality(UNION {{<<s, i>> : i \in DOMAIN h.rooms[s].Peers} :
                              s \in h.rooms[r].SubChannels})

\* Hub.isNameTakenInRoom
isNameTakenInRoom(h, r, username) ==
    \/ \E i \in DOMAIN h.rooms[r].Peers : h.peers[h.rooms[r].Peers[i]].Name = username
    \/ \E s \in h.rooms[r].SubChannels :
          \E i \in DOMAIN h.rooms[s].Peers :
              h.peers[h.rooms[s].Peers[i]].Name = username

JoinError(h, code) == [h |-> h, code |-> code, userId |-> 0, room |-> 0, token |-> 0]

\* hub.go:186-210: the session token names a peer whose room still exists
Reconnect(h, c, existing, room, token) ==
    LET e == h.peers[existing]
        h1 == [h EXCEPT !.peers[existing].Conn = h.peers[c].Conn]
    IN [h |-> [h1 EXCEPT !.peers[c].ID = e.ID,
                         !.peers[c].Name = e.Name,
                         !.peers[c].SessionToken = e.SessionToken,
                         !.peers[c].RoomID = e.RoomID,
                         !.peers[c].MainRoomID = e.MainRoomID],
        code |-> "welcome", userId |-> e.ID, room |-> room, token |-> token]

\* Admit with the session-map insert left out
AdmitNoSession(h, c, p, r) ==
    IF h.rooms[r].ParentID # 0 THEN JoinError(h, ErrInvalidMessage)
    ELSE IF TotalPeers(h, r) >= maxUsersPerRoom THEN JoinError(h, ErrChannelFull)
    ELSE IF isNameTakenInRoom(h, r, p.Username) THEN JoinError(h, ErrNameTaken)
    ELSE LET sessionToken == h.nextToken + 1
         IN [h |-> [h EXCEPT !.peers[c].Name = p.Username,
                             !.peers[c].RoomID = r,
                             !.peers[c].MainRoomID = r,
                             !.peers[c].SessionToken = sessionToken,
                             !.peers[c].SessionCreatedAt = now,
                             !.rooms[r] = AddPeer(@, h.peers[c].ID, c),
                             !.nextToken = sessionToken],
             code |-> "welcome", userId |-> h.peers[c].ID, room |-> r,
             token |-> sessionToken]

\* hub.go:243-281: capacity, name, then the peer is placed and a session issued
Admit(h, c, p, r) ==
    IF h.rooms[r].ParentID # 0 THEN JoinError(h, ErrInvalidMessage)
    ELSE IF TotalPeers(h, r) >= maxUsersPerRoom THEN JoinError(h, ErrChannelFull)
    ELSE IF isNameTakenInRoom(h, r, p.Username) THEN JoinError(h, ErrNameTaken)
    ELSE LET sessionToken == h.nextToken + 1
         IN [h |-> [h EXCEPT !.peers[c].Name = p.Username,
                             !.peers[c].RoomID = r,
                             !.peers[c].MainRoomID = r,
                             !.peers[c].SessionToken = sessionToken,
                             !.peers[c].SessionCreatedAt = now,
                             !.rooms[r] = AddPeer(@, h.peers[c].ID, c),
                             !.SessionMap = MapPut(@, sessionToken, c),
                             !.nextToken = sessionToken],
             code |-> "welcome", userId |-> h.peers[c].ID, room |-> r,
             token |-> sessionToken]

\* Resolve answering an expired invite token like an unknown one
ResolveExpiredAsUnknown(h, c, p) ==
    IF p.InviteToken # 0
    THEN IF p.InviteToken \notin DOMAIN h.InviteMap
         THEN JoinError(h, ErrChannelNotFound)
         ELSE IF OlderThan(h.rooms[h.InviteMap[p.InviteToken]].CreatedAt, InviteTTL)
         THEN JoinError(h, ErrChannelNotFound)
         ELSE Admit(h, c, p, h.InviteMap[p.InviteToken])
    ELSE IF p.ChannelName # NoName
    THEN IF p.ChannelName \notin DOMAIN h.RoomsByName
         THEN JoinError(h, ErrChannelNotFound)
         ELSE IF p.Password = "" THEN JoinError(h, ErrPasswordRequired)
         ELSE IF ~CompareHashAndPassword(
                     h.rooms[h.RoomsByName[p.ChannelName]].PasswordHash, p.Password)
         THEN JoinError(h, ErrPasswordWrong)
         ELSE Admit(h, c, p, h.RoomsByName[p.ChannelName])
    ELSE JoinError(h, ErrInvalidMessage)

\* hub.go:214-241: resolve the room by invite token, else by name and password
Resolve(h, c, p) ==
    IF p.InviteToken # 0
    THEN IF p.InviteToken \notin DOMAIN h.InviteMap
         THEN JoinError(h, ErrChannelNotFound)
         ELSE IF OlderThan(h.rooms[h.InviteMap[p.InviteToken]].CreatedAt, InviteTTL)
         THEN JoinError([h EXCEPT !.InviteMap = MapDel(@, p.InviteToken)],
                        ErrInviteExpired)
         ELSE Admit(h, c, p, h.InviteMap[p.InviteToken])
    ELSE IF p.ChannelName # NoName
    THEN IF p.ChannelName \notin DOMAIN h.RoomsByName
         THEN JoinError(h, ErrChannelNotFound)
         ELSE IF p.Password = "" THEN JoinError(h, ErrPasswordRequired)
         ELSE IF ~CompareHashAndPassword(
                     h.rooms[h.RoomsByName[p.ChannelName]].PasswordHash, p.Password)
         THEN JoinError(h, ErrPasswordWrong)
         ELSE Admit(h, c, p, h.RoomsByName[p.ChannelName])
    ELSE JoinError(h, ErrInvalidMessage)

\* Hub.JoinRoom
JoinRoom(h, c, p) ==
    LET found == p.SessionToken # 0 /\ p.SessionToken \in DOMAIN h.SessionMap
        existing == h.SessionMap[p.SessionToken]
        expired == found /\ OlderThan(h.peers[existing].SessionCreatedAt, SessionTTL)
        h1 == IF expired THEN [h EXCEPT !.SessionMap = MapDel(@, p.SessionToken)]
              ELSE h
        room == IF h.peers[existing].RoomID \in h.Rooms THEN h.peers[existing].RoomID
                ELSE IF h.peers[existing].MainRoomID \in h.Rooms
                THEN h.peers[existing].MainRoomID ELSE 0
    IN IF found /\ ~expired /\ room # 0
       THEN Reconnect(h, c, existing, room, p.SessionToken)
       ELSE Resolve(h1, c, p)

\* handleJoin: validation, then Hub.JoinRoom; the reply is the error code or welcome
handleJoin(h, c, p) ==
    IF ~validateUsername(p.Username) THEN JoinError(h, ErrInvalidMessage)
    ELSE IF p.InviteToken = 0 /\ p.ChannelName = NoName /\ p.SessionToken = 0
    THEN JoinError(h, ErrInvalidMessage)
    ELSE IF /\ p.InviteToken = 0
            /\ p.SessionToken = 0
            /\ p.Password # ""
            /\ ~validatePassword(p.Password)
    THEN JoinError(h, ErrInvalidMessage)
    ELSE JoinRoom(h, c, p)

JoinPayload(u, n, pw, inv, tok) ==
    [Username |-> u, ChannelName |-> n, Password |-> pw, InviteToken |-> inv,
     SessionToken |-> tok]

\* ------------------------------------------------------------- RemovePeer
NumPeers(h, r) == Cardinality(DOMAIN h.rooms[r].Peers)

\* Hub.sendSubCountdownIfNeeded
sendSubCountdownIfNeeded(h, sub) ==
    IF NumPeers(h, sub) = 1
    THEN IF h.rooms[sub].CountdownExpiresAt = 0
         THEN [h EXCEPT !.rooms[sub].CountdownExpiresAt = now + CountdownDelay,
                        !.rooms[sub].Expiry = now,
                        !.countdowns = @ \cup {<<sub, now + CountdownDelay>>}]
         ELSE h
    ELSE [h EXCEPT !.rooms[sub].CountdownExpiresAt = 0,
                   !.rooms[sub].Expiry = IF NumPeers(h, sub) >= 2 THEN ZeroTime ELSE @]

\* hub.go:347-358 and its copies: an emptied sub is deleted from the parent's map
DeleteSubIfEmpty(h, main, sub) ==
    IF NumPeers(h, sub) = 0
    THEN [h EXCEPT !.rooms[main].SubChannels = @ \ {sub}]
    ELSE h

ClearRoomIDs(h, c) == [h EXCEPT !.peers[c].RoomID = 0, !.peers[c].MainRoomID = 0]

\* Hub.RemovePeer
RemovePeer(h, c) ==
    LET peer == h.peers[c]
        roomID == peer.RoomID
        mainRoomID == peer.MainRoomID
        h0 == [h EXCEPT !.SessionMap = MapDel(@, peer.SessionToken)]
    IN IF roomID = 0 THEN h
       ELSE IF roomID \in h.Rooms
       THEN ClearRoomIDs([h0 EXCEPT !.rooms[roomID] = RemovePeerFromRoom(@, peer.ID)], c)
       ELSE IF mainRoomID \in h.Rooms /\ roomID \in h.rooms[mainRoomID].SubChannels
       THEN LET h1 == [h0 EXCEPT !.rooms[roomID] = RemovePeerFromRoom(@, peer.ID)]
                h2 == sendSubCountdownIfNeeded(h1, roomID)
            IN ClearRoomIDs(DeleteSubIfEmpty(h2, mainRoomID, roomID), c)
       ELSE ClearRoomIDs(h0, c)

\* ------------------------------------------------------- sub-channel invite
Msg(to, type, reason) == [to |-> to, type |-> type, reason |-> reason]

InviteError(h, c, code) ==
    [h |-> h, code |-> code, invite |-> 0, sent |-> {Msg(c, "error", code)}]

\* Hub.HandleSubInvite
HandleSubInvite(h, c, targetUserID, channelName) ==
    LET fromRoomID == h.peers[c].RoomID
        fromMainRoomID == h.peers[c].MainRoomID
    IN IF fromRoomID # fromMainRoomID THEN InviteError(h, c, ErrAlreadyInSub)
       ELSE IF fromMainRoomID \notin h.Rooms THEN InviteError(h, c, ErrInternalError)
       ELSE IF targetUserID \notin DOMAIN h.rooms[fromMainRoomID].Peers
       THEN InviteError(h, c, ErrChannelNotFound)
       ELSE LET targetPeer == h.rooms[fromMainRoomID].Peers[targetUserID]
                inviteID == Len(h.invites) + 1
                invite == [ID |-> inviteID, FromPeer |-> c, ToPeer |-> targetPeer,
                           MainRoom |-> fromMainRoomID,
                           ChannelName |-> IF channelName = "" THEN "Private"
                                           ELSE channelName,
                           CreatedAt |-> now, Timer |-> "armed", resolved |-> << >>]
            IN IF h.peers[targetPeer].RoomID # h.peers[targetPeer].MainRoomID
               THEN InviteError(h, c, ErrAlreadyInSub)
               ELSE [h |-> [h EXCEPT !.invites = Append(@, invite),
                                     !.PendingInvites = @ \cup {inviteID}],
                     code |-> "invite-req", invite |-> inviteID,
                     sent |-> {Msg(targetPeer, "invite-req", "")}]

\* handleSubInvite: validation, then Hub.HandleSubInvite
handleSubInvite(h, c, targetUserID, channelName) ==
    IF channelName # "" /\ ~validateChannelName(channelName)
    THEN InviteError(h, c, ErrInvalidMessage)
    ELSE HandleSubInvite(h, c, targetUserID, channelName)

\* the timer function without its check that the invite is still pending
InviteTimerFuncUnchecked(h, i) ==
    [h |-> [h EXCEPT !.PendingInvites = @ \ {i},
                     !.invites[i].Timer = "done",
                     !.invites[i].resolved = Append(@, "timeout")],
     found |-> TRUE,
     sent |-> {Msg(h.invites[i].FromPeer, "invite-expired", "timeout"),
               Msg(h.invites[i].ToPeer, "invite-expired", "timeout")}]

\* hub.go:514-532: the timer function of invite i
InviteTimerFunc(h, i) ==
    LET exists == i \in h.PendingInvites
        inv == h.invites[i]
    IN [h |-> [h EXCEPT !.PendingInvites = @ \ {i},
                        !.invites[i].Timer = "done",
                        !.invites[i].resolved =
                            IF exists THEN Append(@, "timeout") ELSE @],
        found |-> exists,
        sent |-> IF exists
                 THEN {Msg(inv.FromPeer, "invite-expired", "timeout"),
                       Msg(inv.ToPeer, "invite-expired", "timeout")}
                 ELSE {}]

\* Timer.Stop: prevents the function unless it has already started
StopTimer(t) == IF t = "armed" THEN "stopped" ELSE t

\* hub.go:587-651: the accepted invite becomes a sub-room holding both peers
AcceptInvite(h, inv) ==
    LET subID == Len(h.rooms) + 1
        main == inv.MainRoom
        from == inv.FromPeer
        to == inv.ToPeer
        subRoom == [ID |-> subID, Name |-> inv.ChannelName,
                    FullName |-> h.rooms[main].FullName, InviteToken |-> 0,
                    ParentID |-> h.rooms[main].ID,
                    PasswordHash |-> h.rooms[main].PasswordHash,
                    CreatedAt |-> ZeroTime, Peers |-> EmptyMap, SubChannels |-> {},
                    ChatHistory |-> << >>, Expiry |-> ZeroTime,
                    CountdownExpiresAt |-> 0]
        h1 == [h EXCEPT
                 !.rooms = Append(
                    [@ EXCEPT ![main] =
                       [RemovePeerFromRoom(RemovePeerFromRoom(@, h.peers[from].ID),
                                           h.peers[to].ID)
                          EXCEPT !.SubChannels = @ \cup {subID}]],
                    subRoom)]
        h2 == [h1 EXCEPT !.peers[from].RoomID = subID,
                         !.rooms[subID] = AddPeer(@, h.peers[from].ID, from)]
    IN [h2 EXCEPT !.peers[to].RoomID = subID,
                  !.rooms[subID] = AddPeer(@, h.peers[to].ID, to)]

\* Hub.HandleSubResponse
HandleSubResponse(h, c, inviteID, accepted) ==
    LET ok == inviteID \in h.PendingInvites
        inv == h.invites[inviteID]
        h1 == [h EXCEPT !.PendingInvites = @ \ {inviteID},
                        !.invites[inviteID].Timer = StopTimer(@),
                        !.invites[inviteID].resolved =
                            Append(@, IF accepted THEN "accepted" ELSE "declined")]
    IN IF ~ok
       THEN [h |-> h, code |-> ErrInviteExpired, sub |-> 0,
             sent |-> {Msg(c, "error", ErrInviteExpired)}]
       ELSE IF ~accepted
       THEN [h |-> h1, code |-> "declined", sub |-> 0,
             sent |-> {Msg(inv.FromPeer, "invite-expired", "declined")}]
       ELSE [h |-> AcceptInvite(h1, inv), code |-> "accepted",
             sub |-> Len(h.rooms) + 1, sent |-> {}]

\* HandleMoveToMain leaving the peer in the sub-channel's member map
HandleMoveToMainKeepsSub(h, c) ==
    LET mainRoomID == h.peers[c].MainRoomID
    IN IF h.peers[c].RoomID = mainRoomID \/ mainRoomID \notin h.Rooms THEN h
       ELSE [h EXCEPT !.peers[c].RoomID = mainRoomID,
                      !.rooms[mainRoomID] = AddPeer(@, h.peers[c].ID, c)]

\* ------------------------------------------------------------------ moves
\* Hub.HandleMoveToMain
HandleMoveToMain(h, c) ==
    LET peer == h.peers[c]
        roomID == peer.RoomID
        mainRoomID == peer.MainRoomID
    IN IF roomID = mainRoomID THEN h
       ELSE IF mainRoomID \notin h.Rooms THEN h
       ELSE LET subOk == roomID \in h.rooms[mainRoomID].SubChannels
                h1 == IF subOk
                      THEN [h EXCEPT !.rooms[roomID] = RemovePeerFromRoom(@, peer.ID)]
                      ELSE h
                h2 == [h1 EXCEPT !.peers[c].RoomID = mainRoomID,
                                 !.rooms[mainRoomID] = AddPeer(@, peer.ID, c)]
            IN IF subOk
               THEN DeleteSubIfEmpty(sendSubCountdownIfNeeded(h2, roomID),
                                     mainRoomID, roomID)
               ELSE h2

\* hub.go:747-789: Hub.HandleMoveToSub takes the peer out of the room it was in,
\* by the current-room and main-room ids it read at its start
MoveOutOfRoom(h, c, currentRoomID, mainRoomID) ==
    LET peer == h.peers[c]
        h1 == IF currentRoomID = mainRoomID
              THEN [h EXCEPT !.rooms[mainRoomID] = RemovePeerFromRoom(@, peer.ID)]
              ELSE IF currentRoomID \in h.rooms[mainRoomID].SubChannels
              THEN [h EXCEPT !.rooms[currentRoomID] = RemovePeerFromRoom(@, peer.ID)]
              ELSE h
    IN IF /\ currentRoomID # mainRoomID
          /\ currentRoomID \in h1.rooms[mainRoomID].SubChannels
       THEN DeleteSubIfEmpty(sendSubCountdownIfNeeded(h1, currentRoomID),
                             mainRoomID, currentRoomID)
       ELSE h1

\* hub.go:791-799: the peer is put into the sub-room it looked up
MoveIntoTarget(h, c, targetSubID) ==
    sendSubCountdownIfNeeded(
        [h EXCEPT !.peers[c].RoomID = targetSubID,
                  !.rooms[targetSubID] = AddPeer(@, h.peers[c].ID, c)],
        targetSubID)

\* hub.go:747-799: the part of Hub.HandleMoveToSub after its lookups, run with
\* the current-room and main-room ids it read at its start and the target
\* sub-room it looked up
MoveIntoSubWith(h, c, currentRoomID, mainRoomID, targetSubID) ==
    MoveIntoTarget(MoveOutOfRoom(h, c, currentRoomID, mainRoomID), c, targetSubID)

\* hub.go:747-798: leave the current channel, then enter the target sub
MoveIntoSub(h, c, targetSubID) ==
    MoveIntoSubWith(h, c, h.peers[c].RoomID, h.peers[c].MainRoomID, targetSubID)

\* Hub.HandleMoveToSub
HandleMoveToSub(h, c, targetSubID) ==
    LET currentRoomID == h.peers[c].RoomID
        mainRoomID == h.peers[c].MainRoomID
    IN IF currentRoomID = targetSubID THEN [h |-> h, code |-> ""]
       ELSE IF mainRoomID \notin h.Rooms THEN [h |-> h, code |-> ErrChannelNotFound]
       ELSE IF targetSubID \notin h.rooms[mainRoomID].SubChannels
       THEN [h |-> h, code |-> ErrChannelNotFound]
       ELSE [h |-> MoveIntoSub(h, c, targetSubID), code |-> "moved"]

\* handleMoveToSub: validation, then Hub.HandleMoveToSub
handleMoveToSub(h, c, targetSubID) ==
    IF targetSubID = 0 THEN [h |-> h, code |-> ErrInvalidMessage]
    ELSE HandleMoveToSub(h, c, targetSubID)

\* Hub.sendChatHistory: the chat-history message for peer c about a channel
sendChatHistory(h, c, room) ==
    [to |-> c, type |-> "chat-history", channelId |-> h.rooms[room].ID,
     messages |-> h.rooms[room].ChatHistory]

\* what Hub.HandleMoveToMain sends the moving peer (hub.go:717)
HandleMoveToMainSent(h, c) ==
    IF \/ h.peers[c].RoomID = h.peers[c].MainRoomID
       \/ h.peers[c].MainRoomID \notin h.Rooms
    THEN {}
    ELSE {sendChatHistory(HandleMoveToMain(h, c), c, h.peers[c].MainRoomID)}

\* what Hub.HandleMoveToSub sends the moving peer (hub.go:735, 743, 809)
HandleMoveToSubSent(h, c, targetSubID) ==
    LET res == HandleMoveToSub(h, c, targetSubID)
    IN IF res.code = "moved" THEN {sendChatHistory(res.h, c, targetSubID)}
       ELSE IF res.code = "" THEN {}
       ELSE {Msg(c, "error", res.code)}

\* Room.AddChatMessage that never evicts
AddChatMessageUntrimmed(r, msg, maxSize) ==
    [r EXCEPT !.ChatHistory = Append(r.ChatHistory, msg)]

\* ------------------------------------------------------------------- chat
\* Room.AddChatMessage on a room record
AddChatMessage(r, msg, maxSize) ==
    LET all == Append(r.ChatHistory, msg)
    IN [r EXCEPT !.ChatHistory =
           IF Len(all) > maxSize
           THEN SubSeq(all, Len(all) - maxSize + 1, Len(all))
           ELSE all]

\* hub.go:403-422: the peer's room, id and name are read, the id and the
\* timestamp drawn, the message built; nothing when the peer has no room
ChatStamp(h, c, ciphertext) ==
    IF h.peers[c].RoomID = 0
    THEN [h |-> h, run |-> NoPending]
    ELSE [h |-> [h EXCEPT !.nextMsg = @ + 1],
          run |-> [op |-> "chat", roomID |-> h.peers[c].RoomID,
                   msg |-> [ID |-> h.nextMsg + 1, UserID |-> h.peers[c].ID,
                            UserName |-> h.peers[c].Name,
                            Ciphertext |-> ciphertext, Timestamp |-> now]]]

\* hub.go:424-441: the room by id, else the sub of that id in some indexed room
ChatRoom(h, roomID) ==
    IF roomID \in h.Rooms THEN roomID
    ELSE IF \E r \in h.Rooms : roomID \in h.rooms[r].SubChannels THEN roomID
    ELSE 0

\* hub.go:424-456: the message is appended to the room found and broadcast
ChatDeliver(h, run) ==
    LET room == ChatRoom(h, run.roomID)
        h1 == [h EXCEPT !.rooms[room] = AddChatMessage(@, run.msg, chatHistorySize)]
    IN IF room = 0 THEN [h |-> h, sent |-> {}]
       ELSE [h |-> h1,
             sent |-> {[to |-> o, type |-> "chat", msg |-> run.msg,
                        channelId |-> run.roomID] : o \in Range(h1.rooms[room].Peers)}]

\* Hub.HandleChat run without interruption
HandleChat(h, c, ciphertext) ==
    LET stamped == ChatStamp(h, c, ciphertext)
    IN IF stamped.run.op = "none" THEN [h |-> h, sent |-> {}]
       ELSE ChatDeliver(stamped.h, stamped.run)

\* handleChat: an empty or oversized ciphertext is dropped
ValidCiphertext(ciphertext) == ciphertext # "" /\ Len(ciphertext) <= 10000

\* Hub.broadcastRoomUpdate: the users and sub-channels of the main room, sent
\* to every peer in the main room and all of its sub-channels
broadcastRoomUpdate(h, mainRoom) ==
    LET subs == h.rooms[mainRoom].SubChannels
        allPeers == Range(h.rooms[mainRoom].Peers)
                       \cup UNION {Range(h.rooms[s].Peers) : s \in subs}
    IN {[to |-> o, type |-> "room-update",
         users |-> DOMAIN h.rooms[mainRoom].Peers, subChannels |-> subs]
          : o \in allPeers}

\* hub.go:679-691: Hub.HandleMoveToMain at the point it releases the main
\* room's lock: the peer is out of the sub-channel and in the main room, the
\* sub-channel itself not yet looked at
HandleMoveToMainMoved(h, c) ==
    LET peer == h.peers[c]
        h1 == IF peer.RoomID \in h.rooms[peer.MainRoomID].SubChannels
              THEN [h EXCEPT !.rooms[peer.RoomID] = RemovePeerFromRoom(@, peer.ID)]
              ELSE h
    IN [h1 EXCEPT !.peers[c].RoomID = peer.MainRoomID,
                  !.rooms[peer.MainRoomID] = AddPeer(@, peer.ID, c)]

\* ------------------------------------------------------ sub countdown timer
\* Hub.cleanupExpiredSubChannel
cleanupExpiredSubChannel(h, subID) ==
    LET mains == {r \in h.Rooms : h.rooms[r].ParentID = 0
                                    /\ subID \in h.rooms[r].SubChannels}
    IN IF mains = {} THEN h
       ELSE LET mainRoom == CHOOSE r \in mains : TRUE
            IN IF NumPeers(h, subID) > 1 THEN h
               ELSE IF NumPeers(h, subID) = 1
               THEN LET lastPeer == CHOOSE o \in Range(h.rooms[subID].Peers) : TRUE
                    IN HandleMoveToMain(h, lastPeer)
               ELSE [h EXCEPT !.rooms[mainRoom].SubChannels = @ \ {subID}]

\* hub.go:882-885: the room-update broadcast by the timer when it finds the
\* sub-channel empty
cleanupExpiredSubChannelSent(h, subID) ==
    LET mains == {r \in h.Rooms : h.rooms[r].ParentID = 0
                                    /\ subID \in h.rooms[r].SubChannels}
    IN IF mains = {} \/ NumPeers(h, subID) > 0 THEN {}
       ELSE broadcastRoomUpdate(cleanupExpiredSubChannel(h, subID),
                                CHOOSE r \in mains : TRUE)

\* --------------------------------------------------------------------- gc
\* hub.go:1001-1024: one sub-room of a main room, under both locks
GcSub(h, room, subID) ==
    LET sub == h.rooms[subID]
        n == Cardinality(DOMAIN sub.Peers)
        due == sub.Expiry # ZeroTime /\ now - sub.Expiry > SubGCAge
    IN IF n = 0 /\ due
       THEN [h EXCEPT !.rooms[room].SubChannels = @ \ {subID}]
       ELSE IF n = 1 /\ due
       THEN LET p == CHOOSE o \in Range(sub.Peers) : TRUE
            IN [h EXCEPT !.peers[p].RoomID = h.rooms[room].ID,
                         !.rooms[room] = [AddPeer(@, h.peers[p].ID, p)
                                            EXCEPT !.SubChannels = @ \ {subID}],
                         !.rooms[subID].Peers = EmptyMap]
       ELSE h

RECURSIVE GcSubs(_, _, _)
GcSubs(h, room, subs) ==
    IF subs = << >> THEN h
    ELSE GcSubs(GcSub(h, room, Head(subs)), room, Tail(subs))

\* GcRoom counting the main room's own members only
GcRoomMainOnly(h, roomID, order) ==
    LET subs == SelectSeq(order, LAMBDA x : x \in h.rooms[roomID].SubChannels)
        h1 == GcSubs(h, roomID, subs)
        room == h1.rooms[roomID]
    IN IF /\ TotalPeersMainOnly(h1, roomID) = 0
          /\ room.Expiry # ZeroTime
          /\ now - room.Expiry > RoomGCAge
       THEN [h1 EXCEPT !.Rooms = @ \ {roomID},
                       !.RoomsByName = MapDel(@, room.FullName),
                       !.InviteMap = MapDel(@, room.InviteToken)]
       ELSE h1

\* hub.go:994-1041: one main room: its subs, then the room itself
GcRoom(h, roomID, order) ==
    LET subs == SelectSeq(order, LAMBDA x : x \in h.rooms[roomID].SubChannels)
        h1 == GcSubs(h, roomID, subs)
        room == h1.rooms[roomID]
    IN IF /\ TotalPeers(h1, roomID) = 0
          /\ room.Expiry # ZeroTime
          /\ now - room.Expiry > RoomGCAge
       THEN [h1 EXCEPT !.Rooms = @ \ {roomID},
                       !.RoomsByName = MapDel(@, room.FullName),
                       !.InviteMap = MapDel(@, room.InviteToken)]
       ELSE h1

RECURSIVE GcRooms(_, _, _)
GcRooms(h, todo, order) ==
    IF todo = << >> THEN h
    ELSE GcRooms(IF h.rooms[Head(todo)].ParentID # 0 THEN h
                 ELSE GcRoom(h, Head(todo), order),
                 Tail(todo), order)

\* Hub.gc dropping every invite-map entry, whatever the room's age
gcDropsAllInvites(h, order) ==
    LET sessions == [t \in {t \in DOMAIN h.SessionMap :
                              ~OlderThan(h.peers[h.SessionMap[t]].SessionCreatedAt,
                                         SessionTTL)}
                       |-> h.SessionMap[t]]
        creates == [ip \in {ip \in DOMAIN h.roomCreatesPerIP :
                              RecentCreates(h, ip) # << >>}
                      |-> RecentCreates(h, ip)]
    IN GcRooms([h EXCEPT !.SessionMap = sessions, !.InviteMap = EmptyMap,
                         !.roomCreatesPerIP = creates],
               SelectSeq(order, LAMBDA x : x \in h.Rooms), order)

\* Hub.gc, with the maps ranged over in the given order
gc(h, order) ==
    LET sessions == [t \in {t \in DOMAIN h.SessionMap :
                              ~OlderThan(h.peers[h.SessionMap[t]].SessionCreatedAt,
                                         SessionTTL)}
                       |-> h.SessionMap[t]]
        invs == [t \in {t \in DOMAIN h.InviteMap :
                          ~OlderThan(h.rooms[h.InviteMap[t]].CreatedAt, InviteTTL)}
                   |-> h.InviteMap[t]]
        creates == [ip \in {ip \in DOMAIN h.roomCreatesPerIP :
                              RecentCreates(h, ip) # << >>}
                      |-> RecentCreates(h, ip)]
    IN GcRooms([h EXCEPT !.SessionMap = sessions, !.InviteMap = invs,
                         !.roomCreatesPerIP = creates],
               SelectSeq(order, LAMBDA x : x \in h.Rooms), order)

\* the orders in which a range over a Go map may visit the room ids
Orders ==
    {f \in [1 .. Len(rooms) -> 1 .. Len(rooms)] :
        \A i, j \in 1 .. Len(rooms) : f[i] = f[j] => i = j}

\* ---------------------------------------------------------------- actions
Open(c) == c \in ConnIds /\ conn[c].state = "open" /\ pending[c].op = "none"

NoLoss == [token |-> 0, id |-> 0, name |-> "", room |-> 0, at |-> 0]

\* HandleWebSocket: a transport is accepted, its Peer built, the read loop entered
Connect(ip, limit) ==
    /\ Len(peers) < limit
    /\ Install([H EXCEPT !.peers = Append(@, NewPeer(Len(peers) + 1))])
    /\ conn' = Append(conn, [state |-> "open", ip |-> ip, lost |-> NoLoss])
    /\ last' = NoLast
    /\ UNCHANGED <<sideVars, envVars, pending, created>>

\* the "create" message; observed runs leave their input and reply in last
MsgCreate(c, p, s, observed) ==
    /\ Open(c)
    /\ LET res == handleCreate(H, c, conn[c].ip, p, s)
       IN /\ WithinBounds(res.h)
          /\ Install(res.h)
          /\ created' = IF res.room # 0 THEN Append(created, <<conn[c].ip, now>>)
                        ELSE created
          /\ last' = IF observed
                     THEN [op |-> "create", c |-> c, p |-> p, code |-> res.code,
                           msg |-> res.msg, room |-> res.room]
                     ELSE NoLast
    /\ UNCHANGED <<sideVars, envVars, pending, conn>>

\* the "join" message
MsgJoin(c, p, observed) ==
    /\ Open(c)
    /\ LET res == handleJoin(H, c, p)
       IN /\ WithinBounds(res.h)
          /\ Install(res.h)
          /\ last' = IF observed
                     THEN [op |-> "join", c |-> c, p |-> p, code |-> res.code,
                           userId |-> res.userId, room |-> res.room,
                           token |-> res.token]
                     ELSE NoLast
    /\ UNCHANGED <<sideVars, envVars, pending, conn, created>>

\* the "leave" message
MsgLeave(c) ==
    /\ Open(c)
    /\ Install(RemovePeer(H, c))
    /\ last' = NoLast
    /\ UNCHANGED <<sideVars, envVars, pending, conn, created>>

\* the peer is in a room: its current-room id names a room whose map holds it
InRoom(c) ==
    /\ peers[c].RoomID # 0
    /\ peers[c].ID \in DOMAIN rooms[peers[c].RoomID].Peers

\* websocket.go:192-198: the read loop ended, the deferred cleanup runs
Disconnect(c) ==
    /\ Open(c)
    /\ Install(RemovePeer(H, c))
    /\ conn' = [conn EXCEPT ![c].state = "closed",
                            ![c].lost = IF InRoom(c) /\ peers[c].SessionToken # 0
                                        THEN [token |-> peers[c].SessionToken,
                                              id |-> peers[c].ID,
                                              name |-> peers[c].Name,
                                              room |-> peers[c].RoomID, at |-> now]
                                        ELSE NoLoss]
    /\ last' = NoLast
    /\ UNCHANGED <<sideVars, envVars, pending, created>>

\* the "sub-invite" message
MsgSubInvite(c, targetUserID, channelName, observed) ==
    /\ Open(c)
    /\ LET res == handleSubInvite(H, c, targetUserID, channelName)
       IN /\ WithinBounds(res.h)
          /\ Install(res.h)
          /\ last' = IF observed
                     THEN [op |-> "sub-invite", c |-> c, target |-> targetUserID,
                           code |-> res.code, invite |-> res.invite, sent |-> res.sent]
                     ELSE NoLast
    /\ UNCHANGED <<sideVars, envVars, pending, conn, created>>

\* the "sub-response" message
MsgSubResponse(c, inviteID, accepted, observed) ==
    /\ Open(c)
    /\ LET res == HandleSubResponse(H, c, inviteID, accepted)
       IN /\ WithinBounds(res.h)
          /\ Install(res.h)
          /\ last' = IF observed
                     THEN [op |-> "sub-response", c |-> c, invite |-> inviteID,
                           code |-> res.code, sub |-> res.sub, sent |-> res.sent]
                     ELSE NoLast
    /\ UNCHANGED <<sideVars, envVars, pending, conn, created>>

\* the 30 s timer of an invite elapses: its function starts and waits for Hub.mu
InviteTimerExpire(i) ==
    /\ i \in DOMAIN invites
    /\ invites[i].Timer = "armed"
    /\ now >= invites[i].CreatedAt + InviteTimeout
    /\ Install([H EXCEPT !.invites[i].Timer = "running"])
    /\ last' = NoLast
    /\ UNCHANGED <<sideVars, envVars, pending, conn, created>>

\* the started timer function takes Hub.mu and runs
InviteTimerRun(i, observed) ==
    /\ i \in DOMAIN invites
    /\ invites[i].Timer = "running"
    /\ LET res == InviteTimerFunc(H, i)
       IN /\ Install(res.h)
          /\ last' = IF observed
                     THEN [op |-> "invite-timer", invite |-> i, found |-> res.found,
                           sent |-> res.sent]
                     ELSE NoLast
    /\ UNCHANGED <<sideVars, envVars, pending, conn, created>>

\* the "move-to-main" message
MsgMoveToMain(c) ==
    /\ Open(c)
    /\ Install(HandleMoveToMain(H, c))
    /\ last' = NoLast
    /\ UNCHANGED <<sideVars, envVars, pending, conn, created>>

\* the "move-to-sub" message
MsgMoveToSub(c, targetSubID) ==
    /\ Open(c)
    /\ Install(handleMoveToSub(H, c, targetSubID).h)
    /\ last' = NoLast
    /\ UNCHANGED <<sideVars, envVars, pending, conn, created>>

\* hub.go:722-745: a move-to-sub reads the peer's ids and looks up the main room
\* and the target sub-room, each under a read lock it releases again
MoveToSubLookup(c, targetSubID) ==
    /\ Open(c)
    /\ handleMoveToSub(H, c, targetSubID).code = "moved"
    /\ pending' = [pending EXCEPT ![c] =
                      [op |-> "move-to-sub", targetSubID |-> targetSubID,
                       currentRoomID |-> peers[c].RoomID,
                       mainRoomID |-> peers[c].MainRoomID]]
    /\ last' = NoLast
    /\ UNCHANGED <<sideVars, envVars, conn, hubVars, created>>

\* hub.go:747-799: the move-to-sub goes on with the rooms it looked up
MoveToSubFinish(c) ==
    /\ pending[c].op = "move-to-sub"
    /\ Install(MoveIntoSubWith(H, c, pending[c].currentRoomID,
                               pending[c].mainRoomID, pending[c].targetSubID))
    /\ pending' = [pending EXCEPT ![c] = NoPending]
    /\ last' = NoLast
    /\ UNCHANGED <<sideVars, envVars, conn, created>>

\* hub.go:747-789: the move-to-sub has taken the peer out of its room and has
\* released the main room's lock
MoveToSubLeave(c) ==
    /\ pending[c].op = "move-to-sub"
    /\ Install(MoveOutOfRoom(H, c, pending[c].currentRoomID, pending[c].mainRoomID))
    /\ pending' = [pending EXCEPT ![c].op = "move-to-sub-enter"]
    /\ last' = NoLast
    /\ UNCHANGED <<sideVars, envVars, conn, created>>

\* hub.go:791-799: the move-to-sub puts the peer into the target sub-room
MoveToSubEnter(c) ==
    /\ pending[c].op = "move-to-sub-enter"
    /\ Install(MoveIntoTarget(H, c, pending[c].targetSubID))
    /\ pending' = [pending EXCEPT ![c] = NoPending]
    /\ last' = NoLast
    /\ UNCHANGED <<sideVars, envVars, conn, created>>

\* the "chat" message up to the point where HandleChat has built the message
MsgChat(c, ciphertext, limit) ==
    /\ Open(c)
    /\ ValidCiphertext(ciphertext)
    /\ nextMsg < limit
    /\ LET stamped == ChatStamp(H, c, ciphertext)
       IN /\ Install(stamped.h)
          /\ pending' = [pending EXCEPT ![c] = stamped.run]
    /\ last' = NoLast
    /\ UNCHANGED <<sideVars, envVars, conn, created>>

\* HandleChat goes on: room lookup, append, broadcast
ChatAppend(c, observed) ==
    /\ c \in ConnIds
    /\ pending[c].op = "chat"
    /\ LET res == ChatDeliver(H, pending[c])
       IN /\ Install(res.h)
          /\ last' = IF observed
                     THEN [op |-> "chat", c |-> c, msg |-> pending[c].msg,
                           sent |-> res.sent]
                     ELSE NoLast
    /\ pending' = [pending EXCEPT ![c] = NoPending]
    /\ UNCHANGED <<sideVars, envVars, conn, created>>

\* a countdown timer armed by sendSubCountdownIfNeeded fires
CountdownFire(t) ==
    /\ t \in countdowns
    /\ now >= t[2]
    /\ Install(cleanupExpiredSubChannel([H EXCEPT !.countdowns = @ \ {t}], t[1]))
    /\ last' = NoLast
    /\ UNCHANGED <<sideVars, envVars, pending, conn, created>>

\* the hub's periodic garbage collection
Gc ==
    /\ \E order \in Orders : Install(gc(H, [i \in 1 .. Len(rooms) |-> order[i]]))
    /\ last' = NoLast
    /\ UNCHANGED <<sideVars, envVars, pending, conn, created>>

\* the clock advances
Tick(d) ==
    /\ ticks < MaxTicks
    /\ now' = now + d
    /\ ticks' = ticks + 1
    /\ last' = NoLast
    /\ UNCHANGED <<sideVars, maxUsersPerRoom, maxTotalRooms, chatHistorySize, pending,
                   conn, hubVars, created>>

\* the clock advances, at most limit times
Elapse(d, limit) ==
    /\ ticks < limit
    /\ now' = now + d
    /\ ticks' = ticks + 1
    /\ last' = NoLast
    /\ UNCHANGED <<sideVars, maxUsersPerRoom, maxTotalRooms, chatHistorySize, pending,
                   conn, hubVars, created>>

\* ---------------------------------------------------------- specifications
\* Rooms and sessions over a week: two transports create, join by invite token,
\* by full name and by session token, leave and drop, while the clock passes the
\* invite lifetime and the garbage collector runs.  The second transport's join
\* by the first room's invite token is observed.
InitRooms == InitWith(2, 1)

NextRooms ==
    \/ Connect("ip1", NumConns - 1)
    \/ \E c \in ConnIds, u \in Usernames :
          MsgCreate(c, CreatePayload(u, "Lobby", GoodPassword), 0, FALSE)
    \/ \E c \in ConnIds, u \in Usernames, inv \in 1 .. MaxRoomIds :
          MsgJoin(c, JoinPayload(u, NoName, "", inv, 0), FALSE)
    \/ \E c \in ConnIds, tok \in 1 .. MaxTokens :
          MsgJoin(c, JoinPayload("a", NoName, "", 0, tok), FALSE)
    \/ MsgJoin(2, JoinPayload("b", NoName, "", 1, 0), TRUE)
    \/ \E c \in ConnIds : MsgLeave(c)
    \/ \E c \in ConnIds : Disconnect(c)
    \/ Gc
    \/ Tick(InviteTTL + 1)

SpecRooms == InitRooms /\ [][NextRooms]_vars

\* Sub-channels of one main room: three transports join, invite, respond and
\* move.  The third transport's join by the room's invite token is observed.
InitSubs == InitWith(2, 1)

NextSubs ==
    \/ Connect("ip1", NumConns)
    \/ \E c \in ConnIds :
          MsgCreate(c, CreatePayload("a", "Lobby", GoodPassword), 0, FALSE)
    \/ \E c \in ConnIds, u \in Usernames :
          MsgJoin(c, JoinPayload(u, NoName, "", 1, 0), FALSE)
    \/ MsgJoin(3, JoinPayload("b", NoName, "", 1, 0), TRUE)
    \/ \E c \in ConnIds : MsgLeave(c)
    \/ \E c \in ConnIds, t \in 1 .. NumConns, n \in SubNames :
          MsgSubInvite(c, t, n, FALSE)
    \/ \E c \in ConnIds, i \in 1 .. MaxInvites, a \in BOOLEAN :
          MsgSubResponse(c, i, a, FALSE)
    \/ \E c \in ConnIds : MsgMoveToMain(c)
    \/ \E c \in ConnIds, s \in 1 .. MaxRoomIds : MsgMoveToSub(c, s)

SpecSubs == InitSubs /\ [][NextSubs]_vars

\* One invite against its 30 s timer: two transports, the clock, the timer
\* function and the responses in every order.
InitInvites == InitWith(2, 1)

NextInvites ==
    \/ Connect("ip1", NumConns - 1)
    \/ \E c \in ConnIds :
          MsgCreate(c, CreatePayload("a", "Lobby", GoodPassword), 0, FALSE)
    \/ \E c \in ConnIds, u \in Usernames :
          MsgJoin(c, JoinPayload(u, NoName, "", 1, 0), FALSE)
    \/ \E c \in ConnIds : MsgLeave(c)
    \/ \E c \in ConnIds, t \in 1 .. NumConns, n \in SubNames :
          MsgSubInvite(c, t, n, FALSE)
    \/ \E c \in ConnIds, i \in 1 .. MaxInvites, a \in BOOLEAN :
          MsgSubResponse(c, i, a, FALSE)
    \/ \E i \in 1 .. MaxInvites : InviteTimerExpire(i)
    \/ \E i \in 1 .. MaxInvites : InviteTimerRun(i, FALSE)
    \/ \E c \in ConnIds : MsgMoveToMain(c)
    \/ Tick(InviteTimeout)

SpecInvites == InitInvites /\ [][NextInvites]_vars

\* Room creation under the two caps: three transports from two addresses create
\* rooms and join them by invite token while the ten-minute window passes; the
\* deployment sets MAX_ROOMS to 2 or to 4, and the suffix drawn for a room name
\* is the number of rooms made so far, wrapping around.
InitCreates == \E total \in {2, 4} : InitWith(2, total)

NextCreates ==
    \/ \E ip \in {"ip1", "ip2"} : Connect(ip, NumConns)
    \/ \E c \in ConnIds, u \in Usernames :
          MsgCreate(c, CreatePayload(u, "Lobby", GoodPassword),
                    Len(rooms) % NumSuffixes, FALSE)
    \/ \E c \in ConnIds, u \in Usernames, inv \in 1 .. MaxRoomIds :
          MsgJoin(c, JoinPayload(u, NoName, "", inv, 0), FALSE)
    \/ Tick(CreateWindow)

SpecCreates == InitCreates /\ [][NextCreates]_vars

\* Chat in a room and its sub-channel: two transports create and join a room,
\* form a sub-channel, move between the channels and send a few chat
\* messages while the clock advances between the two halves of HandleChat.
InitChat == InitWith(2, 1)

NextChat ==
    \/ Connect("ip1", NumConns - 1)
    \/ \E c \in ConnIds :
          MsgCreate(c, CreatePayload("a", "Lobby", GoodPassword), 0, FALSE)
    \/ \E c \in ConnIds : MsgJoin(c, JoinPayload("b", NoName, "", 1, 0), FALSE)
    \/ \E c \in ConnIds, t \in 1 .. NumConns : MsgSubInvite(c, t, "", FALSE)
    \/ \E c \in ConnIds, i \in 1 .. MaxInvites : MsgSubResponse(c, i, TRUE, FALSE)
    \/ \E c \in ConnIds : MsgMoveToMain(c)
    \/ \E c \in ConnIds, s \in 1 .. MaxRoomIds : MsgMoveToSub(c, s)
    \/ \E c \in ConnIds : MsgChat(c, "hi", MaxChats)
    \/ \E c \in ConnIds : ChatAppend(c, FALSE)
    \/ Tick(1)

SpecChat == InitChat /\ [][NextChat]_vars

\* Sub-channel countdowns: two transports in one room make a sub-channel, leave
\* it and come back while the clock passes half a countdown twice and
\* every timer armed so far may fire once its five minutes are over.
InitCountdown == InitWith(2, 1)

NextCountdown ==
    \/ Connect("ip1", NumConns - 1)
    \/ \E c \in ConnIds :
          MsgCreate(c, CreatePayload("a", "Lobby", GoodPassword), 0, FALSE)
    \/ \E c \in ConnIds : MsgJoin(c, JoinPayload("b", NoName, "", 1, 0), FALSE)
    \/ \E c \in ConnIds : MsgLeave(c)
    \/ \E c \in ConnIds, t \in 1 .. NumConns : MsgSubInvite(c, t, "", FALSE)
    \/ \E c \in ConnIds, i \in 1 .. MaxInvites : MsgSubResponse(c, i, TRUE, FALSE)
    \/ \E c \in ConnIds : MsgMoveToMain(c)
    \/ \E c \in ConnIds, s \in 1 .. MaxRoomIds : MsgMoveToSub(c, s)
    \/ \E t \in countdowns : CountdownFire(t)
    \/ Elapse(CountdownDelay \div 2, MaxElapses)

SpecCountdown == InitCountdown /\ [][NextCountdown]_vars

\* Garbage collection of rooms with sub-channels: two transports fill and empty
\* one room and a sub-channel of it while the clock passes the idle time of a
\* main room and the garbage collector runs.
InitGc == InitWith(2, 1)

NextGc ==
    \/ Connect("ip1", NumConns - 1)
    \/ \E c \in ConnIds :
          MsgCreate(c, CreatePayload("a", "Lobby", GoodPassword), 0, FALSE)
    \/ \E c \in ConnIds : MsgJoin(c, JoinPayload("b", NoName, "", 1, 0), FALSE)
    \/ \E c \in ConnIds : MsgLeave(c)
    \/ \E c \in ConnIds, t \in 1 .. NumConns : MsgSubInvite(c, t, "", FALSE)
    \/ \E c \in ConnIds, i \in 1 .. MaxInvites : MsgSubResponse(c, i, TRUE, FALSE)
    \/ \E c \in ConnIds : MsgMoveToMain(c)
    \/ Gc
    \/ Tick(RoomGCAge + 1)

SpecGc == InitGc /\ [][NextGc]_vars

\* Moves between a room and its sub-channel with the move-to-sub handler
\* interleaved: between its lookups and its writes the other transport's
\* handlers run.
InitMoves == InitWith(2, 1)

NextMoves ==
    \/ Connect("ip1", NumConns - 1)
    \/ \E c \in ConnIds :
          MsgCreate(c, CreatePayload("a", "Lobby", GoodPassword), 0, FALSE)
    \/ \E c \in ConnIds : MsgJoin(c, JoinPayload("b", NoName, "", 1, 0), FALSE)
    \/ \E c \in ConnIds : MsgLeave(c)
    \/ \E c \in ConnIds, t \in 1 .. NumConns : MsgSubInvite(c, t, "", FALSE)
    \/ \E c \in ConnIds, i \in 1 .. MaxInvites : MsgSubResponse(c, i, TRUE, FALSE)
    \/ \E c \in ConnIds : MsgMoveToMain(c)
    \/ \E c \in ConnIds, s \in 1 .. MaxRoomIds : MoveToSubLookup(c, s)
    \/ \E c \in ConnIds : MoveToSubFinish(c)

SpecMoves == InitMoves /\ [][NextMoves]_vars

\* The chat history ring: one transport in its room sends more messages than
\* the smallest configurable history holds.
InitRing == InitWith(2, 1)

NextRing ==
    \/ Connect("ip1", 1)
    \/ MsgCreate(1, CreatePayload("a", "Lobby", GoodPassword), 0, FALSE)
    \/ \E text \in {"x", "y"} : MsgChat(1, text, MaxRingChats)
    \/ ChatAppend(1, FALSE)

SpecRing == InitRing /\ [][NextRing]_vars

\* Chat among peers that enter rooms again: a room with capacity three, two
\* transports that create, join (also while they are in a room or a
\* sub-channel of it), make a sub-channel, move and chat.
InitRejoin == InitWith(3, 1)

NextRejoin ==
    \/ Connect("ip1", NumConns - 1)
    \/ \E c \in ConnIds :
          MsgCreate(c, CreatePayload("a", "Lobby", GoodPassword), 0, FALSE)
    \/ \E c \in ConnIds : MsgJoin(c, JoinPayload("b", NoName, "", 1, 0), FALSE)
    \/ \E c \in ConnIds, t \in 1 .. NumConns : MsgSubInvite(c, t, "", FALSE)
    \/ \E c \in ConnIds, i \in 1 .. MaxInvites : MsgSubResponse(c, i, TRUE, FALSE)
    \/ \E c \in ConnIds : MsgMoveToMain(c)
    \/ \E c \in ConnIds, s \in 1 .. MaxRoomIds : MsgMoveToSub(c, s)
    \/ \E c \in ConnIds : MsgChat(c, "hi", MaxChats)
    \/ \E c \in ConnIds : ChatAppend(c, FALSE)

SpecRejoin == InitRejoin /\ [][NextRejoin]_vars

\* Capacity of one room for two under moves: three transports, each entering
\* the room at most once; the first invites the second into a sub-channel, and
\* the moves into the sub-channel run beside the joins.
InitCapacity == InitWith(2, 1)

NextCapacity ==
    \/ Connect("ip1", NumConns)
    \/ MsgCreate(1, CreatePayload("a", "Lobby", GoodPassword), 0, FALSE)
    \/ \E c \in ConnIds, u \in Usernames :
          /\ c \in DOMAIN peers
          /\ peers[c].RoomID = 0
          /\ MsgJoin(c, JoinPayload(u, NoName, "", 1, 0), FALSE)
    \/ MsgSubInvite(1, 2, "", FALSE)
    \/ \E i \in 1 .. MaxInvites : MsgSubResponse(2, i, TRUE, FALSE)
    \/ \E c \in ConnIds : MsgMoveToMain(c)
    \/ \E c \in ConnIds, s \in 1 .. MaxRoomIds : MoveToSubLookup(c, s)
    \/ \E c \in ConnIds : MoveToSubLeave(c)
    \/ \E c \in ConnIds : MoveToSubEnter(c)

SpecCapacity == InitCapacity /\ [][NextCapacity]_vars

\* ------------------------------------------------- room-update snapshot
\* part_001:65-96: Room.GetUserInfos of a main room: one entry per peer of the
\* main room's map, then one per peer of each sub-room's map (read under that
\* sub-room's read lock), the latter marked with the sub-room's id
GetUserInfos(h, r) ==
    {[ID |-> h.peers[o].ID, Name |-> h.peers[o].Name, InSubChannel |-> 0]
         : o \in Range(h.rooms[r].Peers)}
    \cup UNION {{[ID |-> h.peers[o].ID, Name |-> h.peers[o].Name, InSubChannel |-> s]
                    : o \in Range(h.rooms[s].Peers)}
                : s \in h.rooms[r].SubChannels}

\* part_001:98-121: Room.GetSubChannelInfos: per sub-room its users, read under
\* the sub-room's read lock
GetSubChannelInfos(h, r) ==
    [s \in h.rooms[r].SubChannels |->
        [ID |-> s,
         Users |-> {[ID |-> h.peers[o].ID, Name |-> h.peers[o].Name]
                       : o \in Range(h.rooms[s].Peers)}]]

\* part_001:152-165: Room.AllPeersInMainAndSubs
AllPeersInMainAndSubs(h, r) ==
    Range(h.rooms[r].Peers)
        \cup UNION {Range(h.rooms[s].Peers) : s \in h.rooms[r].SubChannels}

\* a room-update is being assembled: its sender holds the main room's read lock
SnapshotRunning == \E c \in ConnIds : pending[c].op = "room-update"

\* hub.go:459-471, 893-896: Hub.HandleMute finds the peer's main room and
\* broadcastRoomUpdate, holding the main room's read lock, reads the users
HandleMute(c) ==
    /\ Open(c)
    /\ ~SnapshotRunning
    /\ c \in DOMAIN peers
    /\ peers[c].MainRoomID \in Rooms
    /\ pending' = [pending EXCEPT ![c] =
                      [op |-> "room-update", mainRoom |-> peers[c].MainRoomID,
                       at |-> "subChannels",
                       users |-> GetUserInfos(H, peers[c].MainRoomID)]]
    /\ last' = NoLast
    /\ UNCHANGED <<sideVars, envVars, conn, hubVars, created>>

\* hub.go:896: broadcastRoomUpdate reads the sub-channels
BroadcastSubChannels(c) ==
    /\ pending[c].op = "room-update"
    /\ pending[c].at = "subChannels"
    /\ pending' = [pending EXCEPT ![c] =
                      [op |-> "room-update", mainRoom |-> pending[c].mainRoom,
                       at |-> "allPeers", users |-> pending[c].users,
                       subChannels |-> GetSubChannelInfos(H, pending[c].mainRoom)]]
    /\ last' = NoLast
    /\ UNCHANGED <<sideVars, envVars, conn, hubVars, created>>

\* hub.go:897-907: broadcastRoomUpdate reads the recipients, releases the main
\* room's lock and sends the update to each of them
BroadcastSend(c) ==
    /\ pending[c].op = "room-update"
    /\ pending[c].at = "allPeers"
    /\ last' = [op |-> "room-update", mainRoom |-> pending[c].mainRoom,
                users |-> pending[c].users,
                subChannels |-> pending[c].subChannels,
                to |-> AllPeersInMainAndSubs(H, pending[c].mainRoom)]
    /\ pending' = [pending EXCEPT ![c] = NoPending]
    /\ UNCHANGED <<sideVars, envVars, conn, hubVars, created>>

\* Room-updates beside moves: the rooms and moves of SpecCapacity; what takes
\* the main room's write lock waits while a snapshot holds its read lock, the
\* insertion into the target sub-room takes the sub-room's lock only
InitBroadcast == InitWith(3, 1)

NextBroadcast ==
    \/ ~SnapshotRunning /\ Connect("ip1", NumConns)
    \/ /\ ~SnapshotRunning
       /\ MsgCreate(1, CreatePayload("a", "Lobby", GoodPassword), 0, FALSE)
    \/ \E c \in ConnIds, u \in Usernames :
          /\ ~SnapshotRunning
          /\ c \in DOMAIN peers
          /\ peers[c].RoomID = 0
          /\ MsgJoin(c, JoinPayload(u, NoName, "", 1, 0), FALSE)
    \/ ~SnapshotRunning /\ MsgSubInvite(1, 2, "", FALSE)
    \/ \E i \in 1 .. MaxInvites :
          ~SnapshotRunning /\ MsgSubResponse(2, i, TRUE, FALSE)
    \/ \E c \in ConnIds : ~SnapshotRunning /\ MsgMoveToMain(c)
    \/ \E c \in ConnIds : ~SnapshotRunning /\ MoveToSubLeave(c)
    \/ \E c \in ConnIds, s \in 1 .. MaxRoomIds : MoveToSubLookup(c, s)
    \/ \E c \in ConnIds : MoveToSubEnter(c)
    \/ \E c \in ConnIds : HandleMute(c)
    \/ \E c \in ConnIds : BroadcastSubChannels(c)
    \/ \E c \in ConnIds : BroadcastSend(c)

SpecBroadcast == InitBroadcast /\ [][NextBroadcast]_vars

\* ----------------------------------------------------------------- claims
\* what the claims speak of, read off the room objects rather than the code's
\* own counters
LiveRooms == Rooms \cup UNION {rooms[r].SubChannels : r \in Rooms}

MemberOf(pid) == {r \in LiveRooms : pid \in DOMAIN rooms[r].Peers}

OpenConns == {c \in ConnIds : conn[c].state = "open"}

\* C1: every live peer with a non-empty current-room id is in the member map of
\* exactly one room, that room is its current room, and if the room is a sub the
\* peer's main-room id is the sub's parent id.
C1_PeerInExactlyOneRoom ==
    \A c \in OpenConns :
        peers[c].RoomID # 0 =>
            /\ MemberOf(peers[c].ID) = {peers[c].RoomID}
            /\ rooms[peers[c].RoomID].ParentID # 0 =>
                   peers[c].MainRoomID = rooms[peers[c].RoomID].ParentID

\* C2: a peer that was in a room when its transport dropped can, within 24 h,
\* join again on a new transport with its session token: the join succeeds and
\* the welcome carries the id and the name the peer had before the drop.
C2_ReconnectKeepsIdentity ==
    \A d \in ConnIds, c \in OpenConns :
        LET lost == conn[d].lost
            res == handleJoin(H, c, JoinPayload("a", NoName, "", 0, lost.token))
        IN (/\ conn[d].state = "closed"
            /\ lost.token # 0
            /\ lost.room \in LiveRooms
            /\ now - lost.at <= SessionTTL)
           => /\ res.code = "welcome"
              /\ res.userId = lost.id
              /\ res.h.peers[c].Name = lost.name

MainRooms(h) == {r \in h.Rooms : h.rooms[r].ParentID = 0}

RECURSIVE SumPeers(_, _)
SumPeers(h, S) ==
    IF S = {} THEN 0
    ELSE LET s == CHOOSE x \in S : TRUE
         IN Cardinality(DOMAIN h.rooms[s].Peers) + SumPeers(h, S \ {s})

\* |main.Peers| + the sum of |sub.Peers| over the main room's subs
Occupancy(h, r) ==
    Cardinality(DOMAIN h.rooms[r].Peers) + SumPeers(h, h.rooms[r].SubChannels)

\* the member entries <<room, id>> of a main room and of its subs
TreeEntries(h, r) ==
    UNION {{<<x, i>> : i \in DOMAIN h.rooms[x].Peers} :
              x \in {r} \cup h.rooms[r].SubChannels}

TreeIds(h, r) == {e[2] : e \in TreeEntries(h, r)}

TreeNames(h, r) == {h.peers[h.rooms[e[1]].Peers[e[2]]].Name : e \in TreeEntries(h, r)}

Young(h, r) == now - h.rooms[r].CreatedAt <= InviteTTL

\* the password the room was created with
RoomPassword(h, r) ==
    CHOOSE pw \in {GoodPassword, OtherPassword} :
        HashPassword(pw) = h.rooms[r].PasswordHash

\* the two joins a client can send for a room: full name and password, invite token
ByName(h, u, r) == JoinPayload(u, h.rooms[r].FullName, RoomPassword(h, r), 0, 0)

ByInvite(h, u, r) == JoinPayload(u, NoName, "", h.rooms[r].InviteToken, 0)

\* C3: a second peer with a different username joins a created room, younger
\* than 7 days and below capacity, both by (full name, password) and by invite
\* token: it is added to the main room's member map, its current-room and
\* main-room ids become the room's id, and a fresh session token is issued and
\* indexed in the session map.
C3_JoinSucceeds ==
    \A c \in OpenConns, r \in MainRooms(H), u \in Usernames :
        \A p \in {ByName(H, u, r), ByInvite(H, u, r)} :
            LET res == handleJoin(H, c, p)
            IN (/\ Young(H, r)
                /\ Occupancy(H, r) < maxUsersPerRoom
                /\ u \notin TreeNames(H, r)
                /\ peers[c].ID \notin TreeIds(H, r))
               => /\ res.code = "welcome"
                  /\ peers[c].ID \in DOMAIN res.h.rooms[r].Peers
                  /\ res.h.peers[c].RoomID = r
                  /\ res.h.peers[c].MainRoomID = r
                  /\ res.token \notin DOMAIN SessionMap
                  /\ \A x \in ConnIds : peers[x].SessionToken # res.token
                  /\ res.token \in DOMAIN res.h.SessionMap
                  /\ res.h.SessionMap[res.token] = c
                  /\ res.h.peers[c].SessionToken = res.token

\* the second transport joined the first room by its invite token: it sits in the
\* room beside the creator and holds the session token the welcome carried
C3_Witness ==
    /\ last.op = "join"
    /\ last.code = "welcome"
    /\ last.p.InviteToken = 1
    /\ peers[2].RoomID = 1
    /\ peers[2].MainRoomID = 1
    /\ DOMAIN rooms[1].Peers = {1, 2}
    /\ last.token \in DOMAIN SessionMap
    /\ SessionMap[last.token] = 2

\* a session token that the session path of a join would accept
SessionUsable(h, tok) ==
    /\ tok \in DOMAIN h.SessionMap
    /\ now - h.peers[h.SessionMap[tok]].SessionCreatedAt <= SessionTTL
    /\ \/ h.peers[h.SessionMap[tok]].RoomID \in h.Rooms
       \/ h.peers[h.SessionMap[tok]].MainRoomID \in h.Rooms

\* the join payloads of a client named "b": by full name with each password, by
\* invite token, and with fields combined or absent beside each session token
C4_Payloads ==
    {JoinPayload("b", n, pw, 0, 0) :
        n \in FullNames, pw \in {"", GoodPassword, OtherPassword, ShortPassword}}
    \cup {JoinPayload("b", NoName, "", inv, 0) : inv \in 1 .. MaxRoomIds}
    \cup {JoinPayload("b", n, pw, inv, tok) :
              n \in {NoName, <<"Lobby", 0>>}, pw \in {"", ShortPassword},
              inv \in {0, 1}, tok \in 0 .. MaxTokens}

RoomsNamed(n) == {r \in MainRooms(H) : rooms[r].FullName = n}

RoomsInvitedBy(inv) == {r \in MainRooms(H) : rooms[r].InviteToken = inv}

\* the code the name path is documented to answer ("" where a join is admitted)
C4_NameCode(p) ==
    IF RoomsNamed(p.ChannelName) = {} THEN ErrChannelNotFound
    ELSE IF p.Password = "" THEN ErrPasswordRequired
    ELSE IF \A r \in RoomsNamed(p.ChannelName) :
                HashPassword(p.Password) # rooms[r].PasswordHash
    THEN ErrPasswordWrong
    ELSE ""

\* the claimed rejection code of a join without usable session token
C4_ClaimedCode(p) ==
    IF p.InviteToken # 0
    THEN IF \E r \in RoomsInvitedBy(p.InviteToken) : ~Young(H, r)
         THEN ErrInviteExpired ELSE ""
    ELSE IF p.ChannelName # NoName THEN C4_NameCode(p)
    ELSE ErrInvalidMessage

\* the rejection code with the two refinements: an expired invite token answers
\* INVITE_EXPIRED only while the invite index still holds it, and a non-empty
\* password outside 6..64 characters sent with neither invite nor session token
\* is refused as INVALID_MESSAGE before any lookup
C4_AmendedCode(p) ==
    IF p.InviteToken # 0
    THEN IF \E r \in RoomsInvitedBy(p.InviteToken) : ~Young(H, r)
         THEN IF p.InviteToken \in DOMAIN InviteMap
              THEN ErrInviteExpired ELSE ErrChannelNotFound
         ELSE ""
    ELSE IF p.ChannelName # NoName
    THEN IF /\ p.SessionToken = 0
            /\ p.Password # ""
            /\ (Len(p.Password) < 6 \/ Len(p.Password) > 64)
         THEN ErrInvalidMessage
         ELSE C4_NameCode(p)
    ELSE ErrInvalidMessage

\* on hub state h the transport c is admitted by every valid join
C4_ValidJoinSucceeds(h, c) ==
    \A r \in MainRooms(h), u \in Usernames :
        (/\ Occupancy(h, r) < maxUsersPerRoom
         /\ u \notin TreeNames(h, r)
         /\ h.peers[c].ID \notin TreeIds(h, r))
        => /\ handleJoin(h, c, ByName(h, u, r)).code = "welcome"
           /\ Young(h, r) => handleJoin(h, c, ByInvite(h, u, r)).code = "welcome"

\* the payloads with a documented rejection: no usable session token, and a code
C4_Rejected(Code(_)) ==
    {p \in C4_Payloads : ~SessionUsable(H, p.SessionToken) /\ Code(p) # ""}

\* every join with a documented rejection gets that code, joins no room, gets
\* no session token, and leaves the transport able to join
C4_Rejections(Code(_)) ==
    \A c \in OpenConns :
        /\ \A p \in C4_Rejected(Code) :
               LET res == handleJoin(H, c, p)
               IN /\ res.code = Code(p)
                  /\ res.h.rooms = rooms
                  /\ res.h.peers[c].RoomID = peers[c].RoomID
                  /\ res.token = 0
                  /\ res.h.nextToken = nextToken
                  /\ DOMAIN res.h.SessionMap \subseteq DOMAIN SessionMap
        /\ \A h \in {handleJoin(H, c, p).h : p \in C4_Rejected(Code)} :
               C4_ValidJoinSucceeds(h, c)

\* C4 as claimed: a rejected join returns the documented code (unknown full name
\* CHANNEL_NOT_FOUND, name without password PASSWORD_REQUIRED, wrong password
\* PASSWORD_WRONG, invite token of a room older than 7 days INVITE_EXPIRED,
\* nothing usable INVALID_MESSAGE), the peer is added to no room, no session
\* token is issued, and a later valid join on the connection succeeds.
C4_RejectedJoinCode == C4_Rejections(C4_ClaimedCode)

\* C4 amended: as claimed, except that the invite token of a room older than 7
\* days answers INVITE_EXPIRED only while the invite index still holds it and
\* CHANNEL_NOT_FOUND once it has been dropped, and that a non-empty password
\* outside 6..64 characters sent without invite or session token answers
\* INVALID_MESSAGE.
C4_RejectedJoinCodeAmended == C4_Rejections(C4_AmendedCode)

\* the second transport's join by the invite token of the week-old room was
\* answered INVITE_EXPIRED: the token has left the index, the room is still
\* there, the transport is in no room and a join by name would admit it
C4_Witness ==
    /\ last.op = "join"
    /\ last.code = ErrInviteExpired
    /\ last.c = 2
    /\ 1 \in Rooms
    /\ ~Young(H, 1)
    /\ 1 \notin DOMAIN InviteMap
    /\ conn[2].state = "open"
    /\ peers[2].RoomID = 0
    /\ MemberOf(peers[2].ID) = {}
    /\ handleJoin(H, 2, ByName(H, "b", 1)).code = "welcome"

\* C5: a join by invite token or by name and password that resolves a main room
\* is rejected with CHANNEL_FULL, changing nothing, whenever the members of the
\* main room plus the members of all its sub-rooms number at least
\* max-users-per-room, and is not rejected for capacity below that.
C5_ChannelFullAtCapacity ==
    \A c \in OpenConns, r \in MainRooms(H), u \in Usernames :
        \A p \in {ByName(H, u, r), ByInvite(H, u, r)} :
            LET res == handleJoin(H, c, p)
            IN (Young(H, r) /\ rooms[r].InviteToken \in DOMAIN InviteMap)
               => /\ Occupancy(H, r) >= maxUsersPerRoom
                       => res.code = ErrChannelFull /\ res.h = H
                  /\ Occupancy(H, r) < maxUsersPerRoom
                       => res.code # ErrChannelFull

\* the third transport's join was answered CHANNEL_FULL while the main room's
\* own member map was empty: both places are taken by peers in its sub-room
C5_Witness ==
    /\ last.op = "join"
    /\ last.code = ErrChannelFull
    /\ last.c = 3
    /\ 1 \in Rooms
    /\ Cardinality(DOMAIN rooms[1].Peers) < maxUsersPerRoom
    /\ \E s \in rooms[1].SubChannels : Cardinality(DOMAIN rooms[s].Peers) > 0
    /\ Occupancy(H, 1) = maxUsersPerRoom
    /\ peers[3].RoomID = 0

\* no two peer objects reachable from the main room r bear the same name
NamesUnique(h, r) ==
    \A e1, e2 \in TreeEntries(h, r) :
        h.rooms[e1[1]].Peers[e1[2]] # h.rooms[e2[1]].Peers[e2[2]]
            => h.peers[h.rooms[e1[1]].Peers[e1[2]]].Name
                  # h.peers[h.rooms[e2[1]].Peers[e2[2]]].Name

\* C6: a join by invite token or by name and password whose username is borne
\* by a peer in the target main room or in one of its sub-rooms is rejected with
\* NAME_TAKEN, and no join makes two peers reachable from one main room bear
\* the same name.
C6_NameTakenKeepsNamesUnique ==
    \A c \in OpenConns, r \in MainRooms(H), u \in Usernames :
        \A p \in {ByName(H, u, r), ByInvite(H, u, r)} :
            LET res == handleJoin(H, c, p)
            IN Young(H, r)
               => /\ (u \in TreeNames(H, r) /\ Occupancy(H, r) < maxUsersPerRoom)
                       => res.code = ErrNameTaken
                  /\ (\A m \in MainRooms(H) : NamesUnique(H, m))
                       => \A m \in MainRooms(res.h) : NamesUnique(res.h, m)

\* the rooms this address created within the preceding ten minutes
CreatesWithin(ip) ==
    Cardinality({i \in 1 .. Len(created) :
                    created[i][1] = ip /\ created[i][2] > now - CreateWindow})

\* C7: a create is rejected with an error envelope of code SERVER_FULL when the
\* number of main rooms is at least max-rooms or when the same address has
\* created 3 rooms within the preceding 10 minutes; the rejected create indexes
\* no room and places the creator in no room, and the number of rooms never
\* exceeds max-rooms.
C7_CreateRejectedServerFull ==
    /\ Cardinality(MainRooms(H)) <= maxTotalRooms
    /\ \A c \in OpenConns, u \in Usernames, s \in Suffixes :
          LET res == handleCreate(H, c, conn[c].ip,
                                  CreatePayload(u, "Lobby", GoodPassword), s)
          IN (\/ Cardinality(MainRooms(H)) >= maxTotalRooms
              \/ CreatesWithin(conn[c].ip) >= MaxCreatesPerIP)
             => /\ res.code = ErrServerFull
                /\ res.room = 0
                /\ res.h.Rooms = Rooms
                /\ res.h.rooms = rooms
                /\ res.h.RoomsByName = RoomsByName
                /\ res.h.InviteMap = InviteMap
                /\ res.h.peers[c].RoomID = peers[c].RoomID

\* C8: when the invitee accepts a pending sub-invite, inviter and invitee leave
\* the main room's member map and become the two members of one new sub-room
\* that is registered in the invite's main room, has that room as parent,
\* carries its password hash and the proposed name ("Private" when none was
\* given); both peers' current-room ids become the sub's id and their main-room
\* ids stay as they were.
C8_AcceptMovesBothIntoNewSub ==
    /\ \A c \in OpenConns, t \in 1 .. NumConns, n \in SubNames :
          LET res == handleSubInvite(H, c, t, n)
          IN res.invite # 0
             => res.h.invites[res.invite].ChannelName
                   = IF n = "" THEN "Private" ELSE n
    /\ \A i \in PendingInvites :
          LET inv == invites[i]
              from == inv.FromPeer
              to == inv.ToPeer
              main == inv.MainRoom
              res == HandleSubResponse(H, to, i, TRUE)
              sub == res.sub
          IN Open(to)
             => /\ res.code = "accepted"
                /\ sub \notin DOMAIN rooms
                /\ sub \in res.h.rooms[main].SubChannels
                /\ \A m \in MainRooms(H) \ {main} :
                      sub \notin res.h.rooms[m].SubChannels
                /\ peers[from].ID \notin DOMAIN res.h.rooms[main].Peers
                /\ peers[to].ID \notin DOMAIN res.h.rooms[main].Peers
                /\ DOMAIN res.h.rooms[sub].Peers = {peers[from].ID, peers[to].ID}
                /\ Cardinality(DOMAIN res.h.rooms[sub].Peers) = 2
                /\ res.h.rooms[sub].ParentID = main
                /\ res.h.rooms[sub].PasswordHash = rooms[main].PasswordHash
                /\ res.h.rooms[sub].Name = inv.ChannelName
                /\ res.h.peers[from].RoomID = sub
                /\ res.h.peers[to].RoomID = sub
                /\ res.h.peers[from].MainRoomID = peers[from].MainRoomID
                /\ res.h.peers[to].MainRoomID = peers[to].MainRoomID

\* what a sub-response or a timer run leaves untouched when it creates no
\* sub-room and moves nobody
C9_NoMembershipChange(h) == h.rooms = rooms /\ h.peers = peers /\ h.Rooms = Rooms

\* C9: every invite is resolved at most once and, once its timer function has
\* run or been stopped, exactly once: accept, decline or timeout finds a pending
\* invite and removes it; after that a sub-response gets INVITE_EXPIRED and the
\* timer function does nothing; a decline sends invite-expired(declined) to the
\* inviter, a timeout sends invite-expired(timeout) to both parties, and neither
\* creates a sub-room or changes membership.
C9_InviteResolvedOnce ==
    \A i \in DOMAIN invites :
        LET inv == invites[i]
            timer == InviteTimerFunc(H, i)
        IN /\ Len(inv.resolved) <= 1
           /\ i \in PendingInvites <=> inv.resolved = << >>
           /\ inv.Timer \in {"done", "stopped"} => Len(inv.resolved) = 1
           /\ inv.resolved # << >>
                => /\ \A c \in OpenConns, a \in BOOLEAN :
                         LET res == HandleSubResponse(H, c, i, a)
                         IN /\ res.code = ErrInviteExpired
                            /\ res.sent = {Msg(c, "error", ErrInviteExpired)}
                            /\ res.h = H
                   /\ ~timer.found
                   /\ timer.sent = {}
                   /\ C9_NoMembershipChange(timer.h)
                   /\ timer.h.PendingInvites = PendingInvites
                   /\ timer.h.invites[i].resolved = inv.resolved
           /\ inv.resolved = << >>
                => /\ \A c \in OpenConns :
                         LET no == HandleSubResponse(H, c, i, FALSE)
                             yes == HandleSubResponse(H, c, i, TRUE)
                         IN /\ no.sent = {Msg(inv.FromPeer, "invite-expired",
                                              "declined")}
                            /\ C9_NoMembershipChange(no.h)
                            /\ i \notin no.h.PendingInvites
                            /\ no.h.invites[i].resolved = <<"declined">>
                            /\ yes.code = "accepted"
                            /\ i \notin yes.h.PendingInvites
                            /\ yes.h.invites[i].resolved = <<"accepted">>
                   /\ timer.found
                   /\ timer.sent = {Msg(inv.FromPeer, "invite-expired", "timeout"),
                                    Msg(inv.ToPeer, "invite-expired", "timeout")}
                   /\ C9_NoMembershipChange(timer.h)
                   /\ i \notin timer.h.PendingInvites
                   /\ timer.h.invites[i].resolved = <<"timeout">>

\* the invitee declined after the 30 s timer had fired but before its function
\* got the lock; the function then ran and left the declined invite alone
C9_Witness ==
    /\ 1 \in DOMAIN invites
    /\ invites[1].resolved = <<"declined">>
    /\ invites[1].Timer = "done"
    /\ now >= invites[1].CreatedAt + InviteTimeout
    /\ 1 \notin PendingInvites
    /\ \A r \in LiveRooms : rooms[r].ParentID = 0

\* C10: HandleSubInvite creates a pending invite and sends invite-req only if
\* the inviter is in the main room and the target is in the same main room and
\* not in a sub; otherwise it creates nothing and the inviter receives
\* ALREADY_IN_SUB when the inviter is in a sub, CHANNEL_NOT_FOUND when the
\* target is not in the inviter's main room tree, and ALREADY_IN_SUB when the
\* target is in a sub-room of that main room.
C10_SubInviteChecks ==
    \A c \in OpenConns, t \in 1 .. NumConns, n \in SubNames :
        LET res == HandleSubInvite(H, c, t, n)
            main == peers[c].MainRoomID
            inviterInMain ==
                /\ main \in MainRooms(H)
                /\ peers[c].RoomID = main
                /\ peers[c].ID \in DOMAIN rooms[main].Peers
            inviterInSub ==
                /\ peers[c].RoomID \in LiveRooms
                /\ rooms[peers[c].RoomID].ParentID # 0
            targetInMain == t \in DOMAIN rooms[main].Peers
            targetInSub ==
                \E s \in rooms[main].SubChannels : t \in DOMAIN rooms[s].Peers
        IN /\ res.invite # 0
                => /\ inviterInMain /\ targetInMain /\ ~targetInSub
                   /\ res.invite \in res.h.PendingInvites \ PendingInvites
                   /\ res.sent = {Msg(rooms[main].Peers[t], "invite-req", "")}
           /\ res.invite = 0 => res.h = H
           /\ inviterInSub => res.sent = {Msg(c, "error", ErrAlreadyInSub)}
           /\ (inviterInMain /\ ~targetInMain /\ ~targetInSub)
                => res.sent = {Msg(c, "error", ErrChannelNotFound)}
           /\ (inviterInMain /\ targetInSub)
                => res.sent = {Msg(c, "error", ErrAlreadyInSub)}

\* the rooms of hub state h whose member map holds peer id pid
MemberIn(h, pid) ==
    {r \in 1 .. Len(h.rooms) :
        /\ pid \in DOMAIN h.rooms[r].Peers
        /\ \/ r \in h.Rooms
           \/ \E m \in h.Rooms : r \in h.rooms[m].SubChannels}

RegisteredSubs ==
    {ms \in MainRooms(H) \X (1 .. Len(rooms)) : ms[2] \in rooms[ms[1]].SubChannels}

\* C12: when the countdown timer of a registered sub-room fires: with more
\* than one occupant nothing changes; with exactly one occupant that peer is
\* moved to the main room (current-room id = main-room id, member of main)
\* and the sub is deleted from the parent's sub map; with no occupant (the
\* last one is just moving out) the sub is deleted from the parent's sub map
\* and a room-update is broadcast; and a sub with exactly one occupant has a
\* timer under way that will fire.
C12_CountdownFires ==
    \A ms \in RegisteredSubs :
        LET m == ms[1]
            S == ms[2]
            fired == cleanupExpiredSubChannel(H, S)
        IN /\ NumPeers(H, S) > 1 => fired = H
           /\ NumPeers(H, S) = 1 =>
                 /\ \A p \in Range(rooms[S].Peers) :
                       /\ fired.peers[p].RoomID = m
                       /\ fired.peers[p].MainRoomID = m
                       /\ MemberIn(fired, peers[p].ID) = {m}
                       /\ S \notin fired.rooms[m].SubChannels
                       /\ \A c \in ConnIds :
                             peers[c].RoomID = S =>
                                LET moving == HandleMoveToMainMoved(H, c)
                                    empty == cleanupExpiredSubChannel(moving, S)
                                IN /\ S \notin empty.rooms[m].SubChannels
                                   /\ cleanupExpiredSubChannelSent(moving, S)
                                         = broadcastRoomUpdate(empty, m)
                                   /\ c \in {x.to : x \in
                                             cleanupExpiredSubChannelSent(moving, S)}
                 /\ \E t \in countdowns : t[1] = S

\* C13: after every completed membership change a registered sub-room has a
\* non-zero expiresAt if and only if it has exactly one occupant, and a
\* non-zero expiresAt lies at most five minutes ahead.
C13_ExpiresAtIffOneOccupant ==
    \A ms \in RegisteredSubs :
        LET sub == rooms[ms[2]]
        IN /\ sub.CountdownExpiresAt # 0 <=> NumPeers(H, ms[2]) = 1
           /\ sub.CountdownExpiresAt # 0 =>
                 /\ sub.CountdownExpiresAt >= CountdownDelay
                 /\ sub.CountdownExpiresAt <= now + CountdownDelay

\* C14: a countdown timer of a sub-room that fires changes rooms or peers only
\* when the sub's currently published expiresAt has been reached: a timer
\* armed by an earlier countdown has no effect on a later countdown of the
\* same sub.
C14_StaleTimerHasNoEffect ==
    \A t \in countdowns :
        now >= t[2] =>
            LET fired == cleanupExpiredSubChannel([H EXCEPT !.countdowns = @ \ {t}],
                                                  t[1])
            IN (fired.rooms # rooms \/ fired.peers # peers)
                  => /\ rooms[t[1]].CountdownExpiresAt # 0
                     /\ now >= rooms[t[1]].CountdownExpiresAt

\* C15: a GC pass removes a main room from rooms-by-id, rooms-by-name and the
\* invite map when its total occupancy (main plus all subs) is zero and its
\* non-zero expiry is more than 30 minutes old, and never removes a main room
\* that has an occupant in the main room or in one of its subs.
C15_GcRemovesIdleEmptyRooms ==
    \A order \in Orders :
        LET after == gc(H, [i \in 1 .. Len(rooms) |-> order[i]])
        IN \A r \in MainRooms(H) :
              /\ (/\ TotalPeers(H, r) = 0
                  /\ rooms[r].Expiry # ZeroTime
                  /\ now - rooms[r].Expiry > RoomGCAge)
                    => /\ r \notin after.Rooms
                       /\ rooms[r].FullName \notin DOMAIN after.RoomsByName
                       /\ rooms[r].InviteToken \notin DOMAIN after.InviteMap
              /\ TotalPeers(H, r) > 0
                    => /\ r \in after.Rooms
                       /\ rooms[r].FullName \in DOMAIN after.RoomsByName
                       /\ after.RoomsByName[rooms[r].FullName] = r

\* a main room that stood empty for more than 30 minutes is gone from the three
\* indexes
C15_Witness ==
    /\ now > RoomGCAge
    /\ \E r \in 1 .. Len(rooms) :
          /\ rooms[r].ParentID = 0
          /\ rooms[r].Peers = EmptyMap
          /\ r \notin Rooms
          /\ rooms[r].FullName \notin DOMAIN RoomsByName
          /\ rooms[r].InviteToken \notin DOMAIN InviteMap

\* C16: in every reachable state, for every main room R present in the
\* rooms-by-id index, InviteMap[R.InviteToken] is R and RoomsByName[R.FullName]
\* is R, including for occupied rooms that exist longer than 7 days and across
\* GC passes.
C16_IndexesHoldEveryMainRoom ==
    \A r \in MainRooms(H) :
        /\ rooms[r].InviteToken \in DOMAIN InviteMap
        /\ InviteMap[rooms[r].InviteToken] = r
        /\ rooms[r].FullName \in DOMAIN RoomsByName
        /\ RoomsByName[rooms[r].FullName] = r

\* C16 (amended): for every main room R of the rooms-by-id index,
\* RoomsByName[R.FullName] is R; InviteMap[R.InviteToken] is R while R is at
\* most 7 days old, and for an older R the entry is R or has been dropped,
\* never another room.
C16_IndexesAmended ==
    \A r \in MainRooms(H) :
        /\ rooms[r].FullName \in DOMAIN RoomsByName
        /\ RoomsByName[rooms[r].FullName] = r
        /\ Young(H, r) => rooms[r].InviteToken \in DOMAIN InviteMap
        /\ rooms[r].InviteToken \in DOMAIN InviteMap
              => InviteMap[rooms[r].InviteToken] = r

\* an occupied main room older than 7 days, indexed by id and by name, whose
\* invite-map entry has been dropped
C16_Witness ==
    \E r \in MainRooms(H) :
        /\ ~Young(H, r)
        /\ rooms[r].Peers # EmptyMap
        /\ RoomsByName[rooms[r].FullName] = r
        /\ rooms[r].InviteToken \notin DOMAIN InviteMap

\* C17: every sub-room that has a member, or that is the current room of some
\* live peer, is registered in its parent: its parent id names a main room of
\* the hub's index whose sub map holds the sub-room; and no sub-room has
\* sub-rooms of its own; also when a move-to-sub runs concurrently with the
\* leave or move that empties and deletes the target sub.
C17_SubRegisteredInParent ==
    \A s \in 1 .. Len(rooms) :
        rooms[s].ParentID # 0 =>
            /\ rooms[s].SubChannels = {}
            /\ (\/ rooms[s].Peers # EmptyMap
                \/ \E c \in OpenConns : peers[c].RoomID = s)
                  => /\ rooms[s].ParentID \in MainRooms(H)
                     /\ s \in rooms[rooms[s].ParentID].SubChannels

\* the last n elements of sequence s, all of s when it has fewer
LastOf(s, n) ==
    LET k == IF Len(s) < n THEN Len(s) ELSE n
    IN [i \in 1 .. k |-> s[Len(s) - k + i]]

\* C18: after any sequence of chat messages in a room the history holds at
\* most chat-history-size messages and they are exactly the most recently
\* appended ones in append order: the messages of the single sender are
\* numbered in the order it sent them, the history holds the consecutive
\* numbers up to the last one appended, and every append leaves the last
\* chat-history-size messages of the old history followed by the new message.
C18_HistoryIsRing ==
    \A r \in LiveRooms :
        LET hist == rooms[r].ChatHistory
            appended == IF pending[1].op = "chat" THEN nextMsg - 1 ELSE nextMsg
        IN /\ Len(hist) <= chatHistorySize
           /\ Len(hist) = IF appended < chatHistorySize THEN appended
                          ELSE chatHistorySize
           /\ \A i \in 1 .. Len(hist) : hist[i].ID = appended - Len(hist) + i
           /\ pending[1].op = "chat" =>
                 ChatDeliver(H, pending[1]).h.rooms[r].ChatHistory
                    = LastOf(Append(hist, pending[1].msg), chatHistorySize)

\* more messages were sent than the history holds: the two oldest are gone
C18_Witness ==
    /\ nextMsg = MaxRingChats
    /\ pending[1].op = "none"
    /\ Len(rooms[1].ChatHistory) = chatHistorySize
    /\ rooms[1].ChatHistory[1].ID = MaxRingChats - chatHistorySize + 1
    /\ rooms[1].ChatHistory[chatHistorySize].ID = MaxRingChats

\* C19: within each room the chat history is ordered by server-assigned
\* timestamp: of any two messages in the history the one nearer the tail has a
\* timestamp at least the other's, for every interleaving of chat messages sent
\* concurrently by different peers of the room.
C19_HistoryOrderedByTimestamp ==
    \A r \in 1 .. Len(rooms) :
        \A i, j \in DOMAIN rooms[r].ChatHistory :
            i < j => rooms[r].ChatHistory[i].Timestamp
                        <= rooms[r].ChatHistory[j].Timestamp

\* C20: a chat message from a peer is appended to the history of exactly the
\* channel the peer is currently in (main room or sub) and broadcast, with
\* channelId = that channel's id, to every member of that channel including
\* the sender, and to no peer whose current channel is another channel of the
\* same main room; a chat from a peer that is in no room changes nothing and
\* sends nothing.
C20_ChatReachesCurrentChannel ==
    \A c \in OpenConns :
        LET r == peers[c].RoomID
            res == HandleChat(H, c, "hi")
            to == {x.to : x \in res.sent}
        IN IF r = 0
           THEN res.h = H /\ res.sent = {}
           ELSE /\ Len(res.h.rooms[r].ChatHistory) > 0
                /\ LET msg == res.h.rooms[r].ChatHistory[Len(res.h.rooms[r].ChatHistory)]
                   IN /\ msg.UserID = peers[c].ID
                      /\ msg.Ciphertext = "hi"
                      /\ res.h.rooms[r].ChatHistory
                            = LastOf(Append(rooms[r].ChatHistory, msg), chatHistorySize)
                      /\ \A x \in res.sent :
                            x.type = "chat" /\ x.channelId = r /\ x.msg = msg
                /\ \A q \in (1 .. Len(rooms)) \ {r} :
                      res.h.rooms[q].ChatHistory = rooms[q].ChatHistory
                /\ c \in to
                /\ Range(rooms[r].Peers) \subseteq to
                /\ LET main == IF rooms[r].ParentID = 0 THEN r ELSE rooms[r].ParentID
                   IN \A o \in to :
                         peers[o].RoomID \notin
                            ({main} \cup rooms[main].SubChannels) \ {r}

\* ------------------------------------------------------- signaling engine
\* The per-peer offer/answer state machine of the media layer.  A goroutine of
\* the engine is an entry of procs; it advances one lock section at a time.
MaxEpoch == 2
MaxSeq == 2
MaxProcs == 2
MaxMediaPeers == 1
MaxEvents == 1

\* a nil signalingReady channel; a channel is named by the offer it waits for
NoChan == <<0, 0>>

\* the signaling fields of a fresh Peer; inRoom says that the room's Peers map
\* holds the peer
NewMediaPeer(id) ==
    [ID |-> id, PC |-> 0, Track |-> 0, Epoch |-> 0, OfferSeq |-> 0, pendingRenego |-> FALSE,
     iceRestartQueued |-> FALSE, signalingReady |-> NoChan, negoMu |-> FALSE,
     events |-> 0, inRoom |-> FALSE]

\* webrtc.PeerConnection as the engine uses it: signaling state, connection
\* state, the peer its callbacks were registered for, its senders, and the seq
\* of the answer that is its remote description
NewPC(o) ==
    [signaling |-> "stable", conn |-> "new", owner |-> o, senders |-> << >>,
     answerSeq |-> 0]

\* a goroutine of the engine: which function, for which peer, where it stands,
\* and the locals it read
Proc(kind, o, pos, isInitial, pc, seq, epoch) ==
    [kind |-> kind, obj |-> o, pos |-> pos, isInitial |-> isInitial, pc |-> pc,
     seq |-> seq, epoch |-> epoch]

RemoveAt(s, i) == [j \in 1 .. (Len(s) - 1) |-> IF j < i THEN s[j] ELSE s[j + 1]]

\* negotiateOffer returns nil: a plain goroutine ends, the goroutine of
\* rebuildPeerConnection goes on to AddRoomTracksToPeer (lines 1538-1547)
ReturnNil(ps, i) ==
    IF ps[i].kind = "rebuilt" THEN [ps EXCEPT ![i].pos = "roomtracks"]
    ELSE RemoveAt(ps, i)

\* HandleWebSocket: a transport is accepted and its Peer constructed
NewTransport(limit) ==
    /\ Len(media) < limit
    /\ media' = Append(media, NewMediaPeer(Len(media) + 1))
    /\ last' = NoLast
    /\ UNCHANGED <<envVars, pending, conn, hubVars, created, pcs, procs, offers,
                   limiter>>

\* the fields CreatePeerConnection sets under negoMu and the peer lock
CreatePeerConnection(p, pc) ==
    [p EXCEPT !.PC = pc, !.Track = pc, !.Epoch = @ + 1, !.OfferSeq = 0,
              !.pendingRenego = FALSE, !.iceRestartQueued = FALSE,
              !.signalingReady = NoChan]

\* the fields ClosePeerConnection clears
ClosePeerConnectionKeepsPC(p) ==
    [p EXCEPT !.OfferSeq = 0, !.pendingRenego = FALSE, !.iceRestartQueued = FALSE,
              !.signalingReady = NoChan]

ClosePeerConnection(p) ==
    [p EXCEPT !.PC = 0, !.Track = 0, !.OfferSeq = 0, !.pendingRenego = FALSE,
              !.iceRestartQueued = FALSE, !.signalingReady = NoChan]

\* pc.Close()
ClosePC(ps, pc) ==
    IF pc = 0 THEN ps
    ELSE [ps EXCEPT ![pc].signaling = "closed", ![pc].conn = "closed"]

\* a handler creates the peer's media connection and negotiates its first offer
\* (handleCreate, handleJoin, the sub-channel moves, rebuildPeerConnection)
DoCreatePeerConnection(o) ==
    /\ o \in DOMAIN media
    /\ media[o].PC = 0
    /\ ~media[o].negoMu
    /\ media[o].Epoch < MaxEpoch
    /\ Len(procs) < MaxProcs
    /\ pcs' = Append(pcs, NewPC(o))
    /\ media' = [media EXCEPT ![o] = CreatePeerConnection(@, Len(pcs) + 1)]
    /\ procs' = Append(procs, Proc("nego", o, "start", TRUE, 0, 0, 0))
    /\ last' = NoLast
    /\ UNCHANGED <<envVars, pending, conn, hubVars, created, offers, limiter>>

\* a handler closes the peer's media connection (leave, moves, rebuild)
DoClosePeerConnection(o) ==
    /\ o \in DOMAIN media
    /\ media[o].PC # 0
    /\ ~media[o].negoMu
    /\ media' = [media EXCEPT ![o] = ClosePeerConnection(@)]
    /\ pcs' = ClosePC(pcs, media[o].PC)
    /\ last' = NoLast
    /\ UNCHANGED <<envVars, pending, conn, hubVars, created, procs, offers, limiter>>

\* AddTrackToPeers / RemoveTrackFromPeers of another peer of the room: the peer
\* has a media connection, so a renegotiation goroutine is started for it
MediaEvent(o) ==
    /\ o \in DOMAIN media
    /\ media[o].PC # 0
    /\ media[o].events < MaxEvents
    /\ Len(procs) < MaxProcs
    /\ procs' = Append(procs, Proc("nego", o, "start", FALSE, 0, 0, 0))
    /\ media' = [media EXCEPT ![o].events = @ + 1]
    /\ last' = NoLast
    /\ UNCHANGED <<envVars, pending, conn, hubVars, created, pcs, offers, limiter>>

\* negotiateOffer from negoMu.Lock to the signaling-state test (lines 998-1030):
\* without a connection it returns; on a connection that is not stable it goes on
\* to defer, still holding negoMu; otherwise it produces and sends the next offer
\* and waits for its answer (lines 1032-1060)
NegoOfferNoBump(i) ==
    LET r == procs[i]
        o == r.obj
        p == media[o]
    IN /\ media' = [media EXCEPT ![o].pendingRenego = FALSE,
                                 ![o].signalingReady = <<p.Epoch, p.OfferSeq>>]
       /\ pcs' = [pcs EXCEPT ![p.PC].signaling = "have-local-offer"]
       /\ offers' = Append(offers, [obj |-> o, Epoch |-> p.Epoch, Seq |-> p.OfferSeq,
                                 Reset |-> p.OfferSeq = 1, kind |-> "nego"])
       /\ procs' = [procs EXCEPT ![i].pos = "wait", ![i].isInitial = FALSE,
                                 ![i].pc = p.PC, ![i].seq = p.OfferSeq,
                                 ![i].epoch = p.Epoch]

NegoOffer(i) ==
    LET r == procs[i]
        o == r.obj
        p == media[o]
        seq == p.OfferSeq + 1
    IN /\ media' = [media EXCEPT ![o].OfferSeq = seq,
                                 ![o].pendingRenego = FALSE,
                                 ![o].signalingReady = <<p.Epoch, seq>>]
       /\ pcs' = [pcs EXCEPT ![p.PC].signaling = "have-local-offer"]
       /\ offers' = Append(offers, [obj |-> o, Epoch |-> p.Epoch, Seq |-> seq,
                                 Reset |-> seq = 1, kind |-> "nego"])
       /\ procs' = [procs EXCEPT ![i].pos = "wait", ![i].isInitial = FALSE,
                                 ![i].pc = p.PC, ![i].seq = seq,
                                 ![i].epoch = p.Epoch]

NegoStart(i) ==
    /\ i \in DOMAIN procs
    /\ procs[i].kind \in {"nego", "rebuilt"}
    /\ procs[i].pos = "start"
    /\ ~media[procs[i].obj].negoMu
    /\ LET o == procs[i].obj
           p == media[o]
       IN IF p.PC = 0
          THEN /\ procs' = RemoveAt(procs, i)
               /\ UNCHANGED <<media, pcs, offers>>
          ELSE IF pcs[p.PC].signaling # "stable"
          THEN /\ procs' = [procs EXCEPT ![i].pos = "defer", ![i].isInitial = FALSE]
               /\ media' = [media EXCEPT ![o].negoMu = TRUE]
               /\ UNCHANGED <<pcs, offers>>
          ELSE /\ p.OfferSeq < MaxSeq
               /\ NegoOffer(i)
    /\ last' = NoLast
    /\ UNCHANGED <<envVars, pending, conn, hubVars, created, limiter>>

\* negotiateOffer lines 1026-1030: the deferring call records the renegotiation
NegoDefer(i) ==
    /\ i \in DOMAIN procs
    /\ procs[i].kind \in {"nego", "rebuilt"}
    /\ procs[i].pos = "defer"
    /\ media' = [media EXCEPT ![procs[i].obj].pendingRenego = TRUE,
                              ![procs[i].obj].negoMu = FALSE]
    /\ procs' = ReturnNil(procs, i)
    /\ last' = NoLast
    /\ UNCHANGED <<envVars, pending, conn, hubVars, created, pcs, offers, limiter>>

\* negotiateOffer lines 1062-1076: the wait ended by the channel
NegoWake(i) ==
    /\ i \in DOMAIN procs
    /\ procs[i].kind \in {"nego", "rebuilt"}
    /\ procs[i].pos = "wait"
    /\ media[procs[i].obj].signalingReady # <<procs[i].epoch, procs[i].seq>>
    /\ media' = [media EXCEPT ![procs[i].obj].pendingRenego = FALSE]
    /\ procs' = IF media[procs[i].obj].pendingRenego
                THEN [procs EXCEPT ![i].pos = "start"]
                ELSE ReturnNil(procs, i)
    /\ last' = NoLast
    /\ UNCHANGED <<envVars, pending, conn, hubVars, created, pcs, offers, limiter>>

\* negotiateOffer lines 1064-1067: the wait ended by the 10 s timer
NegoTimeout(i) ==
    /\ i \in DOMAIN procs
    /\ procs[i].kind \in {"nego", "rebuilt"}
    /\ procs[i].pos = "wait"
    /\ procs' = ReturnNil(procs, i)
    /\ last' = NoLast
    /\ UNCHANGED <<envVars, pending, conn, hubVars, created, media, pcs, offers,
                   limiter>>

\* queueICERestart: the attempt is queued unless the flag says one is
queueICERestart(o) ==
    IF media[o].iceRestartQueued
    THEN UNCHANGED <<media, procs>>
    ELSE /\ Len(procs) < MaxProcs
         /\ media' = [media EXCEPT ![o].iceRestartQueued = TRUE]
         /\ procs' = Append(procs, Proc("ice", o, "timer", FALSE, 0, 0, 0))

\* OnConnectionStateChange of connection pc, registered for its owner; the
\* transport leaves "new" once the connection has a remote description
ConnectionStateChange(pc, st) ==
    /\ pc \in DOMAIN pcs
    /\ pcs[pc].conn = "new" => pcs[pc].answerSeq > 0
    /\ st \in CASE pcs[pc].conn = "new" -> {"connected", "failed"}
                 [] pcs[pc].conn = "connected" -> {"disconnected"}
                 [] pcs[pc].conn = "disconnected" -> {"connected", "failed"}
                 [] pcs[pc].conn = "failed" -> {"connected"}
                 [] OTHER -> {}
    /\ pcs' = [pcs EXCEPT ![pc].conn = st]
    /\ IF st = "connected"
       THEN /\ media' = [media EXCEPT ![pcs[pc].owner].iceRestartQueued = FALSE]
            /\ UNCHANGED procs
       ELSE queueICERestart(pcs[pc].owner)
    /\ last' = NoLast
    /\ UNCHANGED <<envVars, pending, conn, hubVars, created, offers, limiter>>

\* attemptICERestart, the whole negoMu section; ok is whether the connection
\* takes the restart offer as its local description
attemptICERestart(i, ok) ==
    /\ i \in DOMAIN procs
    /\ procs[i].kind = "ice"
    /\ ~media[procs[i].obj].negoMu
    /\ LET o == procs[i].obj
           p == media[o]
           seq == p.OfferSeq + 1
       IN IF \/ p.PC = 0
             \/ pcs[p.PC].conn \in {"connected", "closed"}
             \/ pcs[p.PC].signaling = "have-local-offer" /\ ~ok
          THEN /\ media' = [media EXCEPT ![o].iceRestartQueued = FALSE]
               /\ UNCHANGED <<pcs, offers>>
          ELSE /\ p.OfferSeq < MaxSeq
               /\ pcs' = [pcs EXCEPT ![p.PC].signaling = "have-local-offer"]
               /\ media' = [media EXCEPT ![o].OfferSeq = seq,
                                         ![o].pendingRenego = FALSE,
                                         ![o].iceRestartQueued = FALSE,
                                         ![o].signalingReady = <<p.Epoch, seq>>]
               /\ offers' = Append(offers, [obj |-> o, Epoch |-> p.Epoch, Seq |-> seq,
                                 Reset |-> FALSE, kind |-> "ice"])
    /\ procs' = RemoveAt(procs, i)
    /\ last' = NoLast
    /\ UNCHANGED <<envVars, pending, conn, hubVars, created, limiter>>

\* the reader loop of a transport handles one envelope at a time
ReaderIdle(o) ==
    \A i \in DOMAIN procs :
        ~(procs[i].kind \in {"answer", "join", "leave"} /\ procs[i].obj = o)

\* HandleAnswer lines 1081-1097: the tags are compared under the read lock
AnswerVerdict(p, seq, epoch) ==
    IF p.PC = 0 THEN "error"
    ELSE IF epoch # p.Epoch THEN "discarded"
    ELSE IF seq # p.OfferSeq THEN "discarded"
    ELSE "apply"

\* the client answers an offer it was sent
HandleAnswerRead(o, seq, epoch) ==
    /\ o \in DOMAIN media
    /\ ReaderIdle(o)
    /\ IF AnswerVerdict(media[o], seq, epoch) = "apply"
       THEN /\ Len(procs) < MaxProcs
            /\ procs' = Append(procs, Proc("answer", o, "apply", FALSE, media[o].PC,
                                        seq, epoch))
       ELSE UNCHANGED procs
    /\ last' = [op |-> "answer", obj |-> o, seq |-> seq, epoch |-> epoch,
                verdict |-> AnswerVerdict(media[o], seq, epoch)]
    /\ UNCHANGED <<envVars, pending, conn, hubVars, created, media, pcs, offers,
                   limiter>>

\* HandleAnswer lines 1099-1102: pc.SetRemoteDescription(answer) on the connection
\* that was read; only a connection with a local offer takes an answer
HandleAnswerApply(i) ==
    /\ i \in DOMAIN procs
    /\ procs[i].kind = "answer"
    /\ procs[i].pos = "apply"
    /\ LET r == procs[i]
       IN IF pcs[r.pc].signaling = "have-local-offer"
          THEN /\ pcs' = [pcs EXCEPT ![r.pc].signaling = "stable",
                                     ![r.pc].answerSeq = r.seq]
               /\ procs' = [procs EXCEPT ![i].pos = "signal"]
               /\ last' = [op |-> "applied", obj |-> r.obj, seq |-> r.seq,
                           epoch |-> r.epoch, pc |-> r.pc]
          ELSE /\ procs' = RemoveAt(procs, i)
               /\ last' = NoLast
               /\ UNCHANGED pcs
    /\ UNCHANGED <<envVars, pending, conn, hubVars, created, media, offers, limiter>>

\* HandleAnswer lines 1107-1112: the signaling-ready channel is closed
HandleAnswerSignal(i) ==
    /\ i \in DOMAIN procs
    /\ procs[i].kind = "answer"
    /\ procs[i].pos = "signal"
    /\ media' = [media EXCEPT ![procs[i].obj].signalingReady = NoChan]
    /\ procs' = RemoveAt(procs, i)
    /\ last' = [op |-> "signaled", obj |-> procs[i].obj, seq |-> procs[i].seq,
                epoch |-> procs[i].epoch,
                chan |-> media[procs[i].obj].signalingReady]
    /\ UNCHANGED <<envVars, pending, conn, hubVars, created, pcs, offers, limiter>>

\* HandleICECandidate: what becomes of a candidate tagged (seq, epoch)
HandleICECandidateAnySeq(p, seq, epoch) ==
    IF p.PC = 0 THEN "error"
    ELSE IF epoch # p.Epoch THEN "discarded"
    ELSE "added"

HandleICECandidate(p, seq, epoch) ==
    IF p.PC = 0 THEN "error"
    ELSE IF epoch # p.Epoch THEN "discarded"
    ELSE IF seq > p.OfferSeq THEN "discarded"
    ELSE "added"

\* the client trickles a candidate
MsgCandidate(o, seq, epoch) ==
    /\ o \in DOMAIN media
    /\ ReaderIdle(o)
    /\ last' = [op |-> "candidate", obj |-> o, seq |-> seq, epoch |-> epoch,
                verdict |-> HandleICECandidate(media[o], seq, epoch)]
    /\ UNCHANGED <<envVars, pending, conn, hubVars, created, sideVars>>

\* One peer's signaling: its media connection is created, closed and created
\* again, other peers' tracks come and go, the transport's state changes and the
\* client answers the offers it was sent, each answer possibly late or repeated.
InitNego == InitWith(2, 1)

NextNego ==
    \/ NewTransport(MaxMediaPeers)
    \/ \E o \in DOMAIN media : DoCreatePeerConnection(o)
    \/ \E o \in DOMAIN media : DoClosePeerConnection(o)
    \/ \E o \in DOMAIN media : MediaEvent(o)
    \/ \E i \in DOMAIN procs : NegoStart(i)
    \/ \E i \in DOMAIN procs : NegoDefer(i)
    \/ \E i \in DOMAIN procs : NegoWake(i)
    \/ \E i \in DOMAIN procs : NegoTimeout(i)
    \/ \E pc \in DOMAIN pcs : \E st \in {"connected", "disconnected", "failed"} :
           ConnectionStateChange(pc, st)
    \/ \E i \in DOMAIN procs : \E ok \in BOOLEAN : attemptICERestart(i, ok)
    \/ \E k \in DOMAIN offers :
           HandleAnswerRead(offers[k].obj, offers[k].Seq, offers[k].Epoch)
    \/ \E i \in DOMAIN procs : HandleAnswerApply(i)
    \/ \E i \in DOMAIN procs : HandleAnswerSignal(i)

SpecNego == InitNego /\ [][NextNego]_vars

C22_AnswerAppliedOnlyIfCurrent ==
    /\ \A o \in DOMAIN media, seq \in 0 .. MaxSeq, epoch \in 0 .. MaxEpoch :
           AnswerVerdict(media[o], seq, epoch) = "apply"
               => epoch = media[o].Epoch /\ seq = media[o].OfferSeq
    /\ last.op = "applied" =>
           /\ last.epoch = media[last.obj].Epoch
           /\ last.seq = media[last.obj].OfferSeq
           /\ last.pc = media[last.obj].PC
    /\ last.op = "signaled" /\ last.chan # NoChan =>
           last.chan = <<last.epoch, last.seq>>

\* One peer's signaling without transport failures, with the client trickling
\* candidates tagged with any seq and epoch.
NextCandidates ==
    \/ NewTransport(MaxMediaPeers)
    \/ \E o \in DOMAIN media : DoCreatePeerConnection(o)
    \/ \E o \in DOMAIN media : DoClosePeerConnection(o)
    \/ \E o \in DOMAIN media : MediaEvent(o)
    \/ \E i \in DOMAIN procs : NegoStart(i)
    \/ \E i \in DOMAIN procs : NegoDefer(i)
    \/ \E i \in DOMAIN procs : NegoWake(i)
    \/ \E i \in DOMAIN procs : NegoTimeout(i)
    \/ \E k \in DOMAIN offers :
           HandleAnswerRead(offers[k].obj, offers[k].Seq, offers[k].Epoch)
    \/ \E i \in DOMAIN procs : HandleAnswerApply(i)
    \/ \E i \in DOMAIN procs : HandleAnswerSignal(i)
    \/ \E o \in DOMAIN media, seq \in 0 .. (MaxSeq + 1), epoch \in 0 .. (MaxEpoch + 1) :
           MsgCandidate(o, seq, epoch)

SpecCandidates == InitNego /\ [][NextCandidates]_vars

\* C23: for a peer with a media connection, an inbound ICE candidate tagged
\* (seq, epoch) is added to the connection if and only if epoch is the current
\* epoch and seq is at most the current offerSeq (a late candidate of the same
\* epoch is accepted); a candidate of another epoch or with a larger seq is
\* discarded.
C23_CandidateAddedIffCurrent ==
    /\ \A o \in DOMAIN media, seq \in 0 .. (MaxSeq + 1), epoch \in 0 .. (MaxEpoch + 1) :
           media[o].PC # 0 =>
               LET current == epoch = media[o].Epoch /\ seq <= media[o].OfferSeq
                   verdict == HandleICECandidate(media[o], seq, epoch)
               IN /\ verdict = "added" <=> current
                  /\ ~current => verdict = "discarded"
    /\ last.op = "candidate" /\ media[last.obj].PC # 0 =>
           (last.verdict = "added" <=>
                /\ last.epoch = media[last.obj].Epoch
                /\ last.seq <= media[last.obj].OfferSeq)

\* a late candidate was added: its seq is below the offerSeq of its epoch
C23_Witness ==
    /\ last.op = "candidate"
    /\ last.verdict = "added"
    /\ last.epoch = 2
    /\ last.seq = 1
    /\ media[last.obj].OfferSeq = 2

\* JoinRoom with a session token (hub.go:186-210): the new transport's Peer n takes
\* over identity, connection and track of the session's Peer e, which loses them
SessionReconnect(e, n) ==
    /\ e \in DOMAIN media
    /\ n \in DOMAIN media
    /\ e # n
    /\ media[e].ID = e
    /\ media[n].ID = n
    /\ media[e].Epoch > 0
    /\ media[n].Epoch = 0
    /\ ReaderIdle(n)
    /\ media' = [media EXCEPT ![n].ID = media[e].ID,
                              ![n].PC = media[e].PC,
                              ![n].Track = media[e].Track,
                              ![e].PC = 0,
                              ![e].Track = 0]
    /\ last' = NoLast
    /\ UNCHANGED <<envVars, pending, conn, hubVars, created, pcs, procs, offers,
                   limiter>>

\* A peer negotiates on one transport, then a second transport joins with the
\* peer's session token and the join handler closes and recreates the connection;
\* only the peer with id 1 has media connections.
NextReconnect ==
    \/ NewTransport(MaxMediaPeers + 1)
    \/ \E o \in DOMAIN media : media[o].ID = 1 /\ DoCreatePeerConnection(o)
    \/ \E o \in DOMAIN media : DoClosePeerConnection(o)
    \/ \E i \in DOMAIN procs : NegoStart(i)
    \/ \E i \in DOMAIN procs : NegoDefer(i)
    \/ \E i \in DOMAIN procs : NegoWake(i)
    \/ \E i \in DOMAIN procs : NegoTimeout(i)
    \/ \E k \in DOMAIN offers :
           HandleAnswerRead(offers[k].obj, offers[k].Seq, offers[k].Epoch)
    \/ \E i \in DOMAIN procs : HandleAnswerApply(i)
    \/ \E i \in DOMAIN procs : HandleAnswerSignal(i)
    \/ \E e, n \in DOMAIN media : SessionReconnect(e, n)

SpecReconnect == InitNego /\ [][NextReconnect]_vars

\* C24: every newly created media connection of a peer starts at the previous
\* epoch plus one with offerSeq 0 and pendingRenego false; the first offer sent in
\* each epoch has seq 1 and reset true and every later offer of the epoch has
\* reset false; and after a session-token reconnect the offers of the new
\* transport carry epochs above every epoch used before for that peer id, the
\* first of them the last such epoch plus one.
C24_EpochStartsFresh ==
    /\ \A o \in DOMAIN media :
           LET p == CreatePeerConnection(media[o], Len(pcs) + 1)
           IN /\ p.Epoch = media[o].Epoch + 1
              /\ p.OfferSeq = 0
              /\ ~p.pendingRenego
    /\ \A l \in DOMAIN offers :
           LET first == \A k \in DOMAIN offers :
                            (/\ offers[k].obj = offers[l].obj
                             /\ offers[k].Epoch = offers[l].Epoch) => l <= k
           IN /\ offers[l].Reset <=> first
              /\ first => offers[l].Seq = 1
    /\ \A k, l \in DOMAIN offers :
           (/\ offers[k].obj < offers[l].obj
            /\ media[offers[k].obj].ID = media[offers[l].obj].ID)
           => offers[k].Epoch < offers[l].Epoch

\* C25: a renegotiation requested while an offer is outstanding sets pendingRenego
\* and produces no offer; and once the answer has been accepted (the connection is
\* stable again) a renegotiation that is still pending is being carried out by
\* some goroutine of the engine: the engine never comes to rest on a stable
\* connection with pendingRenego set, waiting for a further media event.
C25_DeferredRenegotiationRuns ==
    /\ [][\A o \in DOMAIN media :
              (/\ o \in DOMAIN media'
               /\ ~media[o].pendingRenego
               /\ media'[o].pendingRenego) => offers' = offers]_vars
    /\ [](\A o \in DOMAIN media :
              (/\ media[o].PC # 0
               /\ pcs[media[o].PC].signaling = "stable"
               /\ \A i \in DOMAIN procs : procs[i].obj # o)
              => ~media[o].pendingRenego)

C27_OneRestartPending ==
    \A o \in DOMAIN media :
        Cardinality({i \in DOMAIN procs :
                         procs[i].kind = "ice" /\ procs[i].obj = o}) <= 1

\* ------------------------------------------------------------ rate limiter
MaxRateTicks == 3

\* rateLimiter.allow at time t: the limiter after the call and its verdict
allowNoDecrement(rl, t) ==
    LET r == IF t - rl.lastReset >= RateWindow
             THEN [rl EXCEPT !.tokens = rl.maxRate, !.lastReset = t,
                             !.sinceReset = 0]
             ELSE rl
    IN IF r.tokens <= 0 THEN [rl |-> r, ok |-> FALSE]
       ELSE [rl |-> r, ok |-> TRUE]

allow(rl, t) ==
    LET r == IF t - rl.lastReset >= RateWindow
             THEN [rl EXCEPT !.tokens = rl.maxRate, !.lastReset = t,
                             !.sinceReset = 0]
             ELSE rl
    IN IF r.tokens <= 0 THEN [rl |-> r, ok |-> FALSE]
       ELSE [rl |-> [r EXCEPT !.tokens = @ - 1], ok |-> TRUE]

\* one iteration of the handler's read loop (part_000:204-226): the envelope is
\* dispatched, or refused with an error, or it is the violation that closes
ReadEnvelope ==
    /\ limiter.state = "open"
    /\ LET a == allow(limiter, limiter.clock)
           violations == a.rl.violations + 1
       IN IF a.ok
          THEN /\ limiter' = [a.rl EXCEPT !.sinceReset = @ + 1, !.sentNow = @ + 1]
               /\ last' = [op |-> "envelope", dispatched |-> TRUE, reply |-> "",
                           closed |-> FALSE, before |-> limiter.violations]
          ELSE IF violations >= MaxViolations
          THEN /\ limiter' = [a.rl EXCEPT !.violations = violations,
                                          !.state = "policy-violation"]
               /\ last' = [op |-> "envelope", dispatched |-> FALSE, reply |-> "",
                           closed |-> TRUE, before |-> limiter.violations]
          ELSE /\ limiter' = [a.rl EXCEPT !.violations = violations]
               /\ last' = [op |-> "envelope", dispatched |-> FALSE,
                           reply |-> "Rate limit exceeded", closed |-> FALSE,
                           before |-> limiter.violations]
    /\ UNCHANGED <<envVars, pending, conn, hubVars, created, media, pcs, procs,
                   offers>>

\* half a RateWindow passes on the connection
RateTick ==
    /\ limiter.clock < MaxRateTicks * (RateWindow \div 2)
    /\ limiter' = [limiter EXCEPT !.clock = @ + RateWindow \div 2,
                                  !.sentBefore = limiter.sentNow,
                                  !.sentNow = 0]
    /\ last' = NoLast
    /\ UNCHANGED <<envVars, pending, conn, hubVars, created, media, pcs, procs,
                   offers>>

\* One connection sends envelopes as fast as it likes while time passes.
NextRate == ReadEnvelope \/ RateTick

SpecRate == InitNego /\ [][NextRate]_vars

\* C28: per connection at most 30 envelopes are dispatched per second; every
\* envelope beyond that is not dispatched, is answered with INVALID_MESSAGE "Rate
\* limit exceeded" and increments the violation counter by one, and the connection
\* is closed with the policy-violation code exactly when the counter reaches 50
\* (40 envelopes in one second: 30 dispatched, 10 errors, counter 10).
C28_RateLimit ==
    /\ limiter.sentBefore + limiter.sentNow <= MaxRate
    /\ (last.op = "envelope" /\ ~last.dispatched) =>
           /\ last.reply = "Rate limit exceeded"
           /\ limiter.violations = last.before + 1
    /\ (last.op = "envelope" /\ last.dispatched) => limiter.violations = last.before
    /\ limiter.state = "policy-violation" <=> limiter.violations = MaxViolations
    /\ (limiter.clock = 0 /\ limiter.sentNow + limiter.violations = 40) =>
           limiter.sentNow = 30 /\ limiter.violations = 10

\* C28 as amended: at most 30 envelopes are dispatched between two refills of the
\* limiter, and refills are at least a second apart, so that up to 60 can be
\* dispatched within one second that spans a refill; every envelope beyond is not
\* dispatched and increments the violation counter by one; it is answered with
\* "Rate limit exceeded" unless it is the 50th violation, which closes the
\* connection with the policy-violation code instead.
C28_RateLimitPerWindow ==
    /\ [](/\ limiter.sinceReset <= MaxRate
          /\ limiter.sentBefore + limiter.sentNow <= 2 * MaxRate
          /\ (last.op = "envelope" /\ ~last.dispatched) =>
                 /\ limiter.violations = last.before + 1
                 /\ last.closed <=> limiter.violations = MaxViolations
                 /\ last.reply = (IF last.closed THEN "" ELSE "Rate limit exceeded")
          /\ (last.op = "envelope" /\ last.dispatched) =>
                 limiter.violations = last.before /\ ~last.closed
          /\ limiter.state = "policy-violation" <=> limiter.violations = MaxViolations
          /\ (limiter.clock = 0 /\ limiter.sentNow + limiter.violations = 40) =>
                 limiter.sentNow = 30 /\ limiter.violations = 10)
    /\ [][limiter'.lastReset # limiter.lastReset =>
              limiter'.lastReset - limiter.lastReset >= RateWindow]_vars

\* the 50th violation closed a connection that had 60 envelopes dispatched
\* within one second
C28_Witness ==
    /\ last.op = "envelope"
    /\ last.closed
    /\ limiter.violations = MaxViolations
    /\ limiter.sentBefore + limiter.sentNow = 2 * MaxRate

\* C30: every live peer that holds a session token is the peer object the
\* session map keeps under that token - one peer object per token, also after a
\* session-token reconnect - and a join never honours a session token whose
\* session is older than 24 h.
C30_SessionMapNamesPeer ==
    /\ \A c \in ConnIds :
           (conn[c].state = "open" /\ peers[c].RoomID # 0
                /\ peers[c].SessionToken # 0) =>
               /\ peers[c].SessionToken \in DOMAIN SessionMap
               /\ SessionMap[peers[c].SessionToken] = c
    /\ \A c \in ConnIds, tok \in 1 .. MaxTokens :
           LET res == handleJoin(H, c, JoinPayload("a", NoName, "", 0, tok))
           IN (Open(c) /\ res.code = "welcome") =>
                  /\ tok \in DOMAIN SessionMap
                  /\ now - peers[SessionMap[tok]].SessionCreatedAt <= SessionTTL

\* ---------------------------------------------------------- media forwarder
\* the other peers of the room: the entries of room.Peers with another id
OtherPeers(ms, o) == {q \in DOMAIN ms : ms[q].inRoom /\ ms[q].ID # ms[o].ID}

hasSenderForTrack(pc, track) == \E i \in DOMAIN pc.senders : pc.senders[i] = track

\* pc.AddTransceiverFromTrack(track, sendonly)
AddTransceiverFromTrack(pc, track) == [pc EXCEPT !.senders = Append(@, track)]

\* pc.RemoveTrack on every sender of the track
RemoveTrack(pc, track) ==
    [pc EXCEPT !.senders = SelectSeq(@, LAMBDA t : t # track)]

\* the goroutines "go NegotiateOffer(target, false)", one per peer of needsRenego
RECURSIVE Renegotiate(_, _)
Renegotiate(ps, needsRenego) ==
    IF needsRenego = {} THEN ps
    ELSE LET q == CHOOSE x \in needsRenego : \A y \in needsRenego : x <= y
         IN Renegotiate(Append(ps, Proc("nego", q, "start", FALSE, 0, 0, 0)),
                        needsRenego \ {q})

\* Hub.AddTrackToPeers: the peer's track becomes a sender on every other
\* connection of the room
AddTrackToPeers(ms, ps, o) ==
    LET track == ms[o].Track
        needsRenego == IF track = 0 THEN {}
                       ELSE {q \in OtherPeers(ms, o) :
                                /\ ms[q].PC # 0
                                /\ ~hasSenderForTrack(ps[ms[q].PC], track)}
    IN [pcs |-> [k \in DOMAIN ps |->
                    IF \E q \in needsRenego : ms[q].PC = k
                    THEN AddTransceiverFromTrack(ps[k], track) ELSE ps[k]],
        needsRenego |-> needsRenego]

RECURSIVE AddTracks(_, _)
AddTracks(pc, tracks) ==
    IF tracks = {} THEN pc
    ELSE LET t == CHOOSE x \in tracks : \A y \in tracks : x <= y
         IN AddTracks(AddTransceiverFromTrack(pc, t), tracks \ {t})

\* Hub.AddRoomTracksToPeer: the tracks of the other peers of the room become
\* senders on the peer's connection
AddRoomTracksToPeer(ms, ps, o) ==
    LET targetPC == ms[o].PC
        tracks == IF targetPC = 0 THEN {}
                  ELSE {ms[q].Track : q \in {q \in OtherPeers(ms, o) :
                                                /\ ms[q].Track # 0
                                                /\ ~hasSenderForTrack(ps[targetPC],
                                                                      ms[q].Track)}}
    IN [pcs |-> IF tracks = {} THEN ps
                ELSE [ps EXCEPT ![targetPC] = AddTracks(@, tracks)],
        addedAny |-> tracks # {}]

\* Hub.RemoveTrackFromPeers: the senders of the peer's track are removed from
\* the other connections of the room
RemoveTrackFromPeers(ms, ps, o) ==
    LET track == ms[o].Track
        needsRenego == IF track = 0 THEN {}
                       ELSE {q \in OtherPeers(ms, o) :
                                /\ ms[q].PC # 0
                                /\ hasSenderForTrack(ps[ms[q].PC], track)}
    IN [pcs |-> [k \in DOMAIN ps |->
                    IF \E q \in needsRenego : ms[q].PC = k
                    THEN RemoveTrack(ps[k], track) ELSE ps[k]],
        needsRenego |-> needsRenego]

\* Hub.JoinRoom puts the peer into the room's map; the join handler then
\* replaces the peer's media connection (part_000:381-388) by the steps of
\* rebuildPeerConnection (part_002:1529-1548)
EnterRoom(o) ==
    /\ o \in DOMAIN media
    /\ ~media[o].inRoom
    /\ ReaderIdle(o)
    /\ media[o].Epoch < MaxEpoch
    /\ Len(procs) < MaxProcs
    /\ media' = [media EXCEPT ![o].inRoom = TRUE]
    /\ procs' = Append(procs, Proc("join", o, "removetrack", FALSE, 0, 0, 0))
    /\ last' = NoLast
    /\ UNCHANGED <<envVars, pending, conn, hubVars, created, pcs, offers, limiter>>

\* h.RemoveTrackFromPeers(peer, room) of the join handler
RebuildRemoveTrack(i) ==
    /\ i \in DOMAIN procs
    /\ procs[i].kind = "join"
    /\ procs[i].pos = "removetrack"
    /\ LET res == RemoveTrackFromPeers(media, pcs, procs[i].obj)
       IN /\ pcs' = res.pcs
          /\ procs' = Renegotiate([procs EXCEPT ![i].pos = "close"], res.needsRenego)
    /\ last' = NoLast
    /\ UNCHANGED <<envVars, pending, conn, hubVars, created, media, offers, limiter>>

\* h.ClosePeerConnection(peer) of the join handler
RebuildClose(i) ==
    /\ i \in DOMAIN procs
    /\ procs[i].kind = "join"
    /\ procs[i].pos = "close"
    /\ ~media[procs[i].obj].negoMu
    /\ media' = [media EXCEPT ![procs[i].obj] = ClosePeerConnection(@)]
    /\ pcs' = ClosePC(pcs, media[procs[i].obj].PC)
    /\ procs' = [procs EXCEPT ![i].pos = "create"]
    /\ last' = NoLast
    /\ UNCHANGED <<envVars, pending, conn, hubVars, created, offers, limiter>>

\* h.CreatePeerConnection(peer, room) of the join handler
RebuildCreate(i) ==
    /\ i \in DOMAIN procs
    /\ procs[i].kind = "join"
    /\ procs[i].pos = "create"
    /\ ~media[procs[i].obj].negoMu
    /\ pcs' = Append(pcs, NewPC(procs[i].obj))
    /\ media' = [media EXCEPT ![procs[i].obj] = CreatePeerConnection(@, Len(pcs) + 1)]
    /\ procs' = [procs EXCEPT ![i].pos = "addtrack"]
    /\ last' = NoLast
    /\ UNCHANGED <<envVars, pending, conn, hubVars, created, offers, limiter>>

\* h.AddTrackToPeers(peer, room), then the goroutine that negotiates the first
\* offer and attaches the room's tracks (rebuildPeerConnection lines 1537-1548)
RebuildAddTrack(i) ==
    /\ i \in DOMAIN procs
    /\ procs[i].kind = "join"
    /\ procs[i].pos = "addtrack"
    /\ LET res == AddTrackToPeers(media, pcs, procs[i].obj)
       IN /\ pcs' = res.pcs
          /\ procs' = Append(Renegotiate(RemoveAt(procs, i), res.needsRenego),
                             Proc("rebuilt", procs[i].obj, "start", TRUE, 0, 0, 0))
    /\ last' = NoLast
    /\ UNCHANGED <<envVars, pending, conn, hubVars, created, media, offers, limiter>>

\* the goroutine of rebuildPeerConnection after its first offer: the room's
\* tracks are attached and, if any was, negotiated
AttachRoomTracks(i) ==
    /\ i \in DOMAIN procs
    /\ procs[i].kind = "rebuilt"
    /\ procs[i].pos = "roomtracks"
    /\ LET res == AddRoomTracksToPeer(media, pcs, procs[i].obj)
       IN /\ pcs' = res.pcs
          /\ procs' = IF res.addedAny
                      THEN [procs EXCEPT ![i].kind = "nego", ![i].pos = "start"]
                      ELSE RemoveAt(procs, i)
    /\ last' = NoLast
    /\ UNCHANGED <<envVars, pending, conn, hubVars, created, media, offers, limiter>>

\* Hub.RemovePeer for a peer of a main room (hub.go:373-381): its track is taken
\* off the other connections, then the peer leaves the room's map, then its
\* connection is closed
LeaveRoom(o) ==
    /\ o \in DOMAIN media
    /\ media[o].inRoom
    /\ Len(procs) < MaxProcs
    /\ ReaderIdle(o)
    /\ LET res == RemoveTrackFromPeers(media, pcs, o)
       IN /\ pcs' = res.pcs
          /\ procs' = Append(Renegotiate(procs, res.needsRenego),
                             Proc("leave", o, "removepeer", FALSE, 0, 0, 0))
    /\ last' = NoLast
    /\ UNCHANGED <<envVars, pending, conn, hubVars, created, media, offers, limiter>>

LeaveRemovePeer(i) ==
    /\ i \in DOMAIN procs
    /\ procs[i].kind = "leave"
    /\ procs[i].pos = "removepeer"
    /\ media' = [media EXCEPT ![procs[i].obj].inRoom = FALSE]
    /\ procs' = [procs EXCEPT ![i].pos = "close"]
    /\ last' = NoLast
    /\ UNCHANGED <<envVars, pending, conn, hubVars, created, pcs, offers, limiter>>

LeaveClose(i) ==
    /\ i \in DOMAIN procs
    /\ procs[i].kind = "leave"
    /\ procs[i].pos = "close"
    /\ ~media[procs[i].obj].negoMu
    /\ media' = [media EXCEPT ![procs[i].obj] = ClosePeerConnection(@)]
    /\ pcs' = ClosePC(pcs, media[procs[i].obj].PC)
    /\ procs' = RemoveAt(procs, i)
    /\ last' = NoLast
    /\ UNCHANGED <<envVars, pending, conn, hubVars, created, offers, limiter>>

\* The forwarder of one room: transports enter and leave the room while the
\* renegotiations these start run (offers go unanswered: an answer changes no
\* sender).
NextSenders ==
    \/ NewTransport(MaxMediaPeers + 1)
    \/ \E o \in DOMAIN media : EnterRoom(o)
    \/ \E o \in DOMAIN media : LeaveRoom(o)
    \/ \E i \in DOMAIN procs : RebuildRemoveTrack(i)
    \/ \E i \in DOMAIN procs : RebuildClose(i)
    \/ \E i \in DOMAIN procs : RebuildCreate(i)
    \/ \E i \in DOMAIN procs : RebuildAddTrack(i)
    \/ \E i \in DOMAIN procs : AttachRoomTracks(i)
    \/ \E i \in DOMAIN procs : LeaveRemovePeer(i)
    \/ \E i \in DOMAIN procs : LeaveClose(i)
    \/ \E i \in DOMAIN procs : NegoStart(i)
    \/ \E i \in DOMAIN procs : NegoDefer(i)
    \/ \E i \in DOMAIN procs : NegoWake(i)
    \/ \E i \in DOMAIN procs : NegoTimeout(i)

SpecSenders == InitNego /\ [][NextSenders]_vars

\* how many senders of a connection are bound to the track
SendersOf(pc, track) == Cardinality({i \in DOMAIN pc.senders : pc.senders[i] = track})

\* C29: once joins, leaves and moves have completed and renegotiation has
\* settled, for every two distinct peers P and Q of the room that each have a
\* media connection, P's connection has exactly one sender bound to Q's track,
\* and no connection retains a sender for the track of a peer that has left.
C29_OneSenderPerPeer ==
    procs = << >> =>
        \A p \in DOMAIN media :
            (media[p].inRoom /\ media[p].PC # 0) =>
                /\ \A q \in OtherPeers(media, p) :
                       media[q].PC # 0 =>
                           SendersOf(pcs[media[p].PC], media[q].Track) = 1
                /\ \A i \in DOMAIN pcs[media[p].PC].senders :
                       \E q \in OtherPeers(media, p) :
                           media[q].Track = pcs[media[p].PC].senders[i]

\* C40: a sub-response takes effect only when the invite's invitee sends it: a
\* sub-response with a pending invite's id from any other peer creates no
\* sub-room, moves no peer, leaves the invite pending and its timer running.
C40_OnlyInviteeResponds ==
    \A i \in PendingInvites, c \in OpenConns, accepted \in BOOLEAN :
        LET res == HandleSubResponse(H, c, i, accepted)
        IN (Open(c) /\ c # invites[i].ToPeer) =>
               /\ res.sub = 0
               /\ C9_NoMembershipChange(res.h)
               /\ i \in res.h.PendingInvites
               /\ res.h.invites[i].Timer = invites[i].Timer

\* C38: accepting an invite creates a sub-room only if inviter and invitee are
\* two distinct live peers that are both still members of the invite's main
\* room; otherwise no sub-room is created and no membership changes.
C38_AcceptNeedsBothInMain ==
    \A i \in PendingInvites :
        LET inv == invites[i]
            from == inv.FromPeer
            to == inv.ToPeer
            main == inv.MainRoom
            bothInMain == /\ from # to
                          /\ conn[from].state = "open"
                          /\ conn[to].state = "open"
                          /\ main \in Rooms
                          /\ \A p \in {from, to} :
                                /\ peers[p].RoomID = main
                                /\ peers[p].ID \in DOMAIN rooms[main].Peers
                                /\ rooms[main].Peers[peers[p].ID] = p
            res == HandleSubResponse(H, to, i, TRUE)
        IN Open(to) =>
               /\ res.sub # 0 => bothInMain
               /\ ~bothInMain => res.sub = 0 /\ C9_NoMembershipChange(res.h)

\* C35: in every reachable state the occupancy of a main room plus all its
\* sub-rooms is at most max-users-per-room, under any interleaving of joins with
\* sub-invite accepts and moves.
C35_OccupancyWithinCap ==
    \A r \in MainRooms(H) : Occupancy(H, r) <= maxUsersPerRoom

\* C36: once a peer's connection handler has exited (its cleanup RemovePeer has
\* returned), no member map of a room - main or sub - holds the peer's id and
\* no session-map entry refers to the peer, whatever happened before.
C36_GoneAfterCleanup ==
    \A c \in ConnIds :
        conn[c].state = "closed" =>
            /\ \A r \in LiveRooms : peers[c].ID \notin DOMAIN rooms[r].Peers
            /\ \A tok \in DOMAIN SessionMap : SessionMap[tok] # c

\* C39: the garbage collector deletes a main room only if the room and all its
\* sub-rooms have had no occupant for more than 30 minutes: every room of the
\* tree is empty and was emptied more than 30 minutes ago, so the time the main
\* room's own member map was empty while a sub-room was occupied does not count.
C39_GcWaitsForWholeTree ==
    \A order \in Orders, r \in Rooms :
        LET res == gc(H, [i \in 1 .. Len(rooms) |-> order[i]])
        IN (rooms[r].ParentID = 0 /\ r \notin res.Rooms) =>
               \A s \in DOMAIN rooms :
                   (s = r \/ rooms[s].ParentID = r) =>
                       /\ DOMAIN rooms[s].Peers = {}
                       /\ rooms[s].Expiry # ZeroTime
                       /\ now - rooms[s].Expiry > RoomGCAge

\* C34: an ICE restart queued for one connection of a peer never produces an
\* offer on a later connection of that peer. A restart is queued only by a
\* state change of a connection that already has a remote description, so
\* every restart offer follows an earlier offer of the same peer and epoch;
\* a restart offer that is the first offer of its epoch was queued for the
\* connection that was closed before.
C34_RestartStaysOnItsConnection ==
    \A k \in DOMAIN offers :
        offers[k].kind = "ice" =>
            \E j \in 1 .. (k - 1) :
                /\ offers[j].obj = offers[k].obj
                /\ offers[j].Epoch = offers[k].Epoch

\* C37: a peer's media connection carries a sender for another peer's track
\* only while both are members of the same room: when no handler and no
\* negotiation is running, every sender on a peer's current connection is
\* bound to the track of a different peer that is in the room, and the owner
\* of the connection is in the room as well.
C37_SendersOnlyBetweenMembers ==
    procs = << >> =>
        \A p \in DOMAIN media :
            media[p].PC # 0 =>
                \A i \in DOMAIN pcs[media[p].PC].senders :
                    /\ media[p].inRoom
                    /\ \E q \in DOMAIN media :
                           /\ q # p
                           /\ media[q].inRoom
                           /\ media[q].Track = pcs[media[p].PC].senders[i]

\* C33: every room-update goes to exactly the peers its users list names, and
\* its payload is consistent: each user id appears once in users, and a user is
\* listed in subChannels[S].users if and only if users lists it with
\* inSubChannel = S - also when a move or an accept runs beside the broadcast.
C33_RoomUpdateConsistent ==
    last.op = "room-update" =>
        /\ \A u, v \in last.users : u.ID = v.ID => u = v
        /\ \A s \in DOMAIN last.subChannels :
               {u.ID : u \in last.subChannels[s].Users}
                   = {u.ID : u \in {v \in last.users : v.InSubChannel = s}}
        /\ \A u \in last.users :
               u.InSubChannel # 0 => u.InSubChannel \in DOMAIN last.subChannels
        /\ {peers[o].ID : o \in last.to} = {u.ID : u \in last.users}

\* ------------------------------------------------------------------ locks
\* The mutexes: the hub's, the main room's, the sub-room's, and per peer the
\* identity lock, the write mutex and the negotiation mutex
HubMu == <<"Hub.mu", 0>>

RoomMu == <<"Room.mu", 1>>

SubMu == <<"Room.mu", 2>>

PeerMu(p) == <<"Peer.mu", p>>

WriteMu(p) == <<"Peer.writeMu", p>>

NegoMu(p) == <<"Peer.negoMu", p>>

\* what a goroutine does next: take or release a lock, or call out
Lock(l) == <<[op |-> "Lock", on |-> l]>>

RLock(l) == <<[op |-> "RLock", on |-> l]>>

Unlock(l) == <<[op |-> "Unlock", on |-> l]>>

RUnlock(l) == <<[op |-> "RUnlock", on |-> l]>>

Call(what) == <<[op |-> "call", on |-> <<what, 0>>]>>

\* peer.go:34-55: Peer.SendJSON writes to the transport under the write mutex
SendJSON(p) == Lock(WriteMu(p)) \o Call("send") \o Unlock(WriteMu(p))

\* part_001:65-121, 152-165: the three reads of a room-update, a peer q in
\* the main room and a peer p in the sub-room
GetUserInfosOps(p, q) ==
    RLock(PeerMu(q)) \o RUnlock(PeerMu(q))
        \o RLock(SubMu) \o RLock(PeerMu(p)) \o RUnlock(PeerMu(p)) \o RUnlock(SubMu)

GetSubChannelInfosOps(p) ==
    RLock(SubMu) \o RLock(PeerMu(p)) \o RUnlock(PeerMu(p)) \o RUnlock(SubMu)

\* hub.go:893-908: Hub.broadcastRoomUpdate
broadcastRoomUpdateOps(p, q) ==
    RLock(RoomMu) \o GetUserInfosOps(p, q) \o GetSubChannelInfosOps(p)
        \o RLock(SubMu) \o RUnlock(SubMu) \o RUnlock(RoomMu)
        \o SendJSON(q) \o SendJSON(p)

\* part_002:1274-1325: Hub.RemoveTrackFromPeers of p from a room that holds q
RemoveTrackFromPeersOps(p, q, room) ==
    RLock(PeerMu(p)) \o RUnlock(PeerMu(p)) \o RLock(room) \o RUnlock(room)
        \o RLock(PeerMu(q)) \o RUnlock(PeerMu(q)) \o Call("media")

\* part_002:1163-1216: Hub.AddTrackToPeers
AddTrackToPeersOps(p, q, room) ==
    RLock(PeerMu(p)) \o RUnlock(PeerMu(p)) \o RLock(room) \o RUnlock(room)
        \o RLock(PeerMu(q)) \o RUnlock(PeerMu(q)) \o Call("media")

\* part_002:1327-1346: Hub.ClosePeerConnection
ClosePeerConnectionOps(p) ==
    Lock(NegoMu(p)) \o Lock(PeerMu(p)) \o Unlock(PeerMu(p)) \o Unlock(NegoMu(p))
        \o Call("media")

\* part_002:1397-1408: Hub.getWebRTCAPI on first use builds the API
getWebRTCAPIOps == Lock(HubMu) \o Call("media") \o Unlock(HubMu)

\* part_002:774-812: Hub.CreatePeerConnection
CreatePeerConnectionOps(p) ==
    getWebRTCAPIOps \o Call("media")
        \o Lock(NegoMu(p)) \o Lock(PeerMu(p)) \o Unlock(PeerMu(p)) \o Unlock(NegoMu(p))

\* part_002:996-1078: Hub.negotiateOffer, one offer
negotiateOfferOps(p) ==
    Lock(NegoMu(p)) \o RLock(PeerMu(p)) \o RUnlock(PeerMu(p)) \o Call("media")
        \o Lock(PeerMu(p)) \o Unlock(PeerMu(p)) \o Call("sdp")
        \o SendJSON(p) \o Unlock(NegoMu(p)) \o Lock(PeerMu(p)) \o Unlock(PeerMu(p))

\* part_002:919-990: Hub.attemptICERestart
attemptICERestartOps(p) ==
    Lock(NegoMu(p)) \o RLock(PeerMu(p)) \o RUnlock(PeerMu(p)) \o Call("sdp")
        \o Lock(PeerMu(p)) \o Unlock(PeerMu(p)) \o SendJSON(p) \o Unlock(NegoMu(p))

\* part_002:1080-1115: Hub.HandleAnswer
HandleAnswerOps(p) ==
    RLock(PeerMu(p)) \o RUnlock(PeerMu(p)) \o Call("sdp")
        \o Lock(PeerMu(p)) \o Unlock(PeerMu(p))

\* hub.go:814-836: Hub.sendSubCountdownIfNeeded
sendSubCountdownIfNeededOps == Lock(SubMu) \o Unlock(SubMu)

\* the peer's media connection is set up in the room it entered
EnterMediaOps(p, q, room) ==
    CreatePeerConnectionOps(p) \o AddTrackToPeersOps(p, q, room) \o negotiateOfferOps(p)

\* hub.go:96-162: Hub.CreateRoom
CreateRoomOps(p) ==
    Call("bcrypt") \o Lock(HubMu) \o Lock(PeerMu(p)) \o Unlock(PeerMu(p))
        \o Lock(PeerMu(p)) \o Unlock(PeerMu(p)) \o Unlock(HubMu)

\* hub.go:164-282: Hub.JoinRoom by channel name and password
JoinRoomOps(p, q) ==
    Lock(HubMu) \o Call("bcrypt") \o Lock(RoomMu)
        \o RLock(SubMu) \o RUnlock(SubMu)
        \o RLock(PeerMu(q)) \o RUnlock(PeerMu(q))
        \o Lock(PeerMu(p)) \o Unlock(PeerMu(p))
        \o Lock(PeerMu(p)) \o Unlock(PeerMu(p))
        \o Unlock(RoomMu) \o Unlock(HubMu)

\* hub.go:164-212: Hub.JoinRoom by session token, q the session's peer
RejoinOps(p, q) ==
    Lock(HubMu) \o RLock(PeerMu(q)) \o RUnlock(PeerMu(q))
        \o Lock(PeerMu(q)) \o Unlock(PeerMu(q))
        \o Lock(PeerMu(p)) \o Unlock(PeerMu(p))
        \o Lock(PeerMu(q)) \o Unlock(PeerMu(q)) \o Unlock(HubMu)

\* hub.go:309-400: Hub.RemovePeer of a peer in the sub-room
RemovePeerOps(p, q) ==
    RLock(PeerMu(p)) \o RUnlock(PeerMu(p))
        \o Lock(HubMu) \o Lock(RoomMu) \o Lock(SubMu) \o Unlock(SubMu)
        \o Unlock(RoomMu) \o Unlock(HubMu)
        \o RemoveTrackFromPeersOps(p, q, SubMu) \o ClosePeerConnectionOps(p)
        \o sendSubCountdownIfNeededOps
        \o Lock(RoomMu) \o RLock(SubMu) \o RUnlock(SubMu) \o Unlock(RoomMu)
        \o broadcastRoomUpdateOps(q, q)
        \o Lock(PeerMu(p)) \o Unlock(PeerMu(p))

\* hub.go:402-457: Hub.HandleChat
HandleChatOps(p, q) ==
    RLock(PeerMu(p)) \o RUnlock(PeerMu(p))
        \o RLock(HubMu) \o RLock(RoomMu) \o RUnlock(RoomMu) \o RUnlock(HubMu)
        \o Lock(SubMu) \o Unlock(SubMu)
        \o RLock(SubMu) \o RUnlock(SubMu) \o SendJSON(p) \o SendJSON(q)

\* Hub.HandleMute, had it kept the peer's lock while it looks the room up
HandleMuteOpsPeerKept(p, q) ==
    Lock(PeerMu(p)) \o RLock(HubMu) \o RUnlock(HubMu) \o Unlock(PeerMu(p))
        \o broadcastRoomUpdateOps(p, q)

\* hub.go:459-472: Hub.HandleMute
HandleMuteOps(p, q) ==
    Lock(PeerMu(p)) \o Unlock(PeerMu(p)) \o RLock(HubMu) \o RUnlock(HubMu)
        \o broadcastRoomUpdateOps(p, q)

\* hub.go:474-563: Hub.HandleSubInvite
HandleSubInviteOps(p, q) ==
    RLock(PeerMu(p)) \o RUnlock(PeerMu(p)) \o RLock(HubMu) \o RUnlock(HubMu)
        \o RLock(RoomMu) \o RUnlock(RoomMu) \o RLock(PeerMu(q)) \o RUnlock(PeerMu(q))
        \o Lock(HubMu) \o Unlock(HubMu) \o RLock(PeerMu(p)) \o RUnlock(PeerMu(p))
        \o SendJSON(q)

\* hub.go:514-532: the invite's timer
InviteTimerOps(p, q) == Lock(HubMu) \o Unlock(HubMu) \o SendJSON(p) \o SendJSON(q)

\* hub.go:565-651: Hub.HandleSubResponse, accepted; p the invitee, q the inviter
HandleSubResponseOps(p, q) ==
    Lock(HubMu) \o Unlock(HubMu)
        \o RLock(PeerMu(q)) \o RUnlock(PeerMu(q)) \o RLock(PeerMu(p)) \o RUnlock(PeerMu(p))
        \o ClosePeerConnectionOps(q) \o ClosePeerConnectionOps(p)
        \o RLock(RoomMu) \o RUnlock(RoomMu) \o RLock(RoomMu) \o RUnlock(RoomMu)
        \o Lock(RoomMu) \o Unlock(RoomMu)
        \o Lock(SubMu) \o Lock(PeerMu(q)) \o Unlock(PeerMu(q))
        \o Lock(PeerMu(p)) \o Unlock(PeerMu(p)) \o Unlock(SubMu)
        \o EnterMediaOps(q, p, SubMu) \o EnterMediaOps(p, q, SubMu)
        \o broadcastRoomUpdateOps(p, q)

\* hub.go:653-720: Hub.HandleMoveToMain of a peer in the sub-room
HandleMoveToMainOps(p, q) ==
    RLock(PeerMu(p)) \o RUnlock(PeerMu(p)) \o RLock(HubMu) \o RUnlock(HubMu)
        \o RLock(RoomMu) \o RUnlock(RoomMu)
        \o RemoveTrackFromPeersOps(p, q, SubMu) \o ClosePeerConnectionOps(p)
        \o Lock(RoomMu) \o Lock(SubMu) \o Unlock(SubMu)
        \o Lock(PeerMu(p)) \o Unlock(PeerMu(p)) \o Unlock(RoomMu)
        \o sendSubCountdownIfNeededOps
        \o Lock(RoomMu) \o RLock(SubMu) \o RUnlock(SubMu) \o Unlock(RoomMu)
        \o EnterMediaOps(p, q, RoomMu)
        \o RLock(RoomMu) \o RUnlock(RoomMu) \o SendJSON(p)
        \o broadcastRoomUpdateOps(q, p)

\* hub.go:721-812: Hub.HandleMoveToSub of a peer in the main room
HandleMoveToSubOps(p, q) ==
    RLock(PeerMu(p)) \o RUnlock(PeerMu(p)) \o RLock(HubMu) \o RUnlock(HubMu)
        \o RLock(RoomMu) \o RUnlock(RoomMu)
        \o RemoveTrackFromPeersOps(p, q, RoomMu) \o ClosePeerConnectionOps(p)
        \o Lock(RoomMu) \o Unlock(RoomMu)
        \o Lock(PeerMu(p)) \o Unlock(PeerMu(p))
        \o Lock(SubMu) \o Unlock(SubMu)
        \o sendSubCountdownIfNeededOps
        \o EnterMediaOps(p, q, SubMu)
        \o RLock(SubMu) \o RUnlock(SubMu) \o SendJSON(p)
        \o broadcastRoomUpdateOps(p, q)

\* hub.go:838-887: Hub.cleanupExpiredSubChannel of an empty sub-room
cleanupExpiredSubChannelOps(p, q) ==
    RLock(HubMu) \o RLock(RoomMu) \o RUnlock(RoomMu) \o RUnlock(HubMu)
        \o RLock(SubMu) \o RUnlock(SubMu)
        \o Lock(RoomMu) \o Unlock(RoomMu)
        \o broadcastRoomUpdateOps(p, q)

\* hub.go:958-1042: Hub.gc, with a session, a room and a sub-room that holds
\* one peer
gcOps(p, q) ==
    Lock(HubMu) \o RLock(PeerMu(q)) \o RUnlock(PeerMu(q))
        \o Lock(RoomMu) \o Lock(SubMu)
        \o Lock(PeerMu(p)) \o Unlock(PeerMu(p)) \o Unlock(SubMu)
        \o RLock(SubMu) \o RUnlock(SubMu)
        \o Unlock(RoomMu) \o Unlock(HubMu)

\* the goroutines of the server
ThreadNames ==
    {"CreateRoom", "JoinRoom", "Rejoin", "RemovePeer", "HandleChat", "HandleMute",
     "HandleSubInvite", "InviteTimer", "HandleSubResponse", "HandleMoveToMain",
     "HandleMoveToSub", "cleanupExpiredSubChannel", "gc", "attemptICERestart",
     "HandleAnswer"}

ThreadOps(name, p, q) ==
    CASE name = "CreateRoom" -> CreateRoomOps(p)
      [] name = "JoinRoom" -> JoinRoomOps(p, q)
      [] name = "Rejoin" -> RejoinOps(p, q)
      [] name = "RemovePeer" -> RemovePeerOps(p, q)
      [] name = "HandleChat" -> HandleChatOps(p, q)
      [] name = "HandleMute" -> HandleMuteOps(p, q)
      [] name = "HandleSubInvite" -> HandleSubInviteOps(p, q)
      [] name = "InviteTimer" -> InviteTimerOps(p, q)
      [] name = "HandleSubResponse" -> HandleSubResponseOps(p, q)
      [] name = "HandleMoveToMain" -> HandleMoveToMainOps(p, q)
      [] name = "HandleMoveToSub" -> HandleMoveToSubOps(p, q)
      [] name = "cleanupExpiredSubChannel" -> cleanupExpiredSubChannelOps(p, q)
      [] name = "gc" -> gcOps(p, q)
      [] name = "attemptICERestart" -> attemptICERestartOps(p)
      [] name = "HandleAnswer" -> HandleAnswerOps(p)

MaxThreads == 2

\* a goroutine: what it runs, for which peer, where it is, the locks it holds
\* in the order it took them, and whether it waits for a write lock
Thread(name, p) ==
    [kind |-> "thread", name |-> name, obj |-> p, at |-> 1, held |-> << >>,
     waiting |-> FALSE]

\* the operations of each goroutine for each peer, the other peer being 3 - p
Programs == [name \in ThreadNames, p \in 1 .. 2 |-> ThreadOps(name, p, 3 - p)]

OpsOf(t) == Programs[t.name, t.obj]

NextOp(t) == OpsOf(t)[t.at]

Holds(t, l, modes) == \E k \in DOMAIN t.held : t.held[k].on = l /\ t.held[k].op \in modes

\* sync.RWMutex: a write lock needs the lock free; a read lock needs no writer
\* holding it and none waiting for it
CanLock(ts, i) ==
    \A j \in DOMAIN ts : j # i => ~Holds(ts[j], NextOp(ts[i]).on, {"Lock", "RLock"})

CanRLock(ts, i) ==
    \A j \in DOMAIN ts :
        j # i => /\ ~Holds(ts[j], NextOp(ts[i]).on, {"Lock"})
                 /\ ~(ts[j].waiting /\ NextOp(ts[j]).on = NextOp(ts[i]).on)

CanStep(ts, i) ==
    CASE NextOp(ts[i]).op = "Lock" -> CanLock(ts, i) \/ ~ts[i].waiting
      [] NextOp(ts[i]).op = "RLock" -> CanRLock(ts, i)
      [] OTHER -> TRUE

Release(held, l) ==
    LET k == CHOOSE k \in DOMAIN held :
                 held[k].on = l /\ \A m \in DOMAIN held : held[m].on = l => m <= k
    IN [m \in 1 .. (Len(held) - 1) |-> IF m < k THEN held[m] ELSE held[m + 1]]

\* the thread's next operation takes effect
StepThread(ts, i) ==
    LET t == ts[i]
        o == NextOp(t)
    IN CASE o.op = "Lock" /\ ~CanLock(ts, i) -> [ts EXCEPT ![i].waiting = TRUE]
         [] o.op \in {"Lock", "RLock"} ->
                [ts EXCEPT ![i].held = Append(@, o), ![i].waiting = FALSE,
                           ![i].at = @ + 1]
         [] o.op \in {"Unlock", "RUnlock"} ->
                [ts EXCEPT ![i].held = Release(@, o.on), ![i].at = @ + 1]
         [] OTHER -> [ts EXCEPT ![i].at = @ + 1]

\* a handler, a timer or the collector starts
ThreadStart(name, p) ==
    /\ Len(procs) < MaxThreads
    /\ procs' = Append(procs, Thread(name, p))
    /\ last' = NoLast
    /\ UNCHANGED <<envVars, pending, conn, hubVars, created, media, pcs, offers, limiter>>

\* a goroutine takes its next step, or returns after its last
ThreadStep(i) ==
    /\ i \in DOMAIN procs
    /\ procs[i].kind = "thread"
    /\ CanStep(procs, i)
    /\ LET ts == StepThread(procs, i)
       IN procs' = IF ts[i].at > Len(OpsOf(ts[i])) THEN RemoveAt(ts, i) ELSE ts
    /\ last' = NoLast
    /\ UNCHANGED <<envVars, pending, conn, hubVars, created, media, pcs, offers, limiter>>

InitLocks == InitWith(2, 1)

NextLocks ==
    \/ \E name \in ThreadNames, p \in 1 .. 2 : ThreadStart(name, p)
    \/ \E i \in DOMAIN procs : ThreadStep(i)

SpecLocks == InitLocks /\ [][NextLocks]_vars

\* the place of a lock in the order Hub.mu, Room.mu of the main room, Room.mu
\* of a sub-room, Peer.mu; the write and negotiation mutexes stand outside
Rank(l) ==
    CASE l = HubMu -> 1
      [] l = RoomMu -> 2
      [] l = SubMu -> 3
      [] l[1] = "Peer.mu" -> 4
      [] OTHER -> 0

Threads == {i \in DOMAIN procs : procs[i].kind = "thread"}

\* C31: locks are taken in the order Hub.mu, Room.mu (the parent room before
\* the sub-room), Peer.mu and never in the reverse order; no write mutex or
\* negotiation mutex is held when Hub.mu or a Room.mu is taken; and no
\* interleaving of the handlers, timers and the collector deadlocks: while a
\* goroutine is unfinished, one of them can take its next step.
C31_LockOrderNoDeadlock ==
    /\ \A i \in Threads :
           \A k, m \in DOMAIN procs[i].held :
               (k < m /\ Rank(procs[i].held[m].on) # 0) =>
                   /\ Rank(procs[i].held[k].on) < Rank(procs[i].held[m].on)
                   /\ Rank(procs[i].held[m].on) \in {1, 2, 3} =>
                          Rank(procs[i].held[k].on) # 0
    /\ Threads # {} => \E i \in Threads : CanStep(procs, i)

\* the collector holds the hub's, the main room's, the sub-room's and a
\* peer's lock at once while a second goroutine waits for one of them
C31_Witness ==
    \E i, j \in Threads :
        /\ i # j
        /\ {procs[i].held[k].on : k \in DOMAIN procs[i].held}
               = {HubMu, RoomMu, SubMu, PeerMu(procs[i].obj)}
        /\ procs[j].waiting

\* C32: no Hub, Room or Peer identity lock is held while the server performs
\* a transport send, an SDP create/set-local/set-remote or another
\* media-library call, or a bcrypt password verification.
C32_NoLockAcrossBlockingCall ==
    \A i \in Threads :
        NextOp(procs[i]).op = "call" =>
            \A k \in DOMAIN procs[i].held : Rank(procs[i].held[k].on) = 0

====
